---- MODULE Spec2Model ----
(***************************************************************************)
(* A model of ClientManager (clientManager.ts): one language client per    *)
(* workspace folder, started and stopped by asynchronous operations that   *)
(* suspend at every await.  A task is one call chain; one action is the    *)
(* code a call chain runs between two suspensions.                         *)
(***************************************************************************)
EXTENDS Integers, Sequences, FiniteSets, TLC

VARIABLES
  clients,           \* ClientManager.clients: folder key -> connection
  diagnosticCaches,  \* ClientManager.diagnosticCaches: folder key -> cache instance
  watchers,          \* ClientManager.watchers: folder key -> Disposable[]
  pendingStarts,     \* ClientManager.pendingStarts
  conns,             \* every LanguageClient createClient has returned, with the
                     \* cache afterStart created for it (cache, 0 before)
  handles,           \* every Disposable handed to registerWatchers
  caches,            \* every cache Map instance created (its keys)
  folders,           \* workspace.workspaceFolders
  tasks,             \* the call chains
  calls,             \* what the collaborators have been asked, per folder
  syncCalls,         \* synchronous calls made so far
  faults,            \* awaited calls that have thrown so far
  glob,              \* a call of normalizePathForGlob: its argument and result
  legacy             \* the module-level state of extension.ts: languageClients,
                     \* diagnosticCaches, and the call chains of its functions

vars == <<clients, diagnosticCaches, watchers, pendingStarts, conns, handles,
          caches, folders, tasks, calls, syncCalls, faults, glob, legacy>>

\* ------------------------------------------------------------------ bounds

\* call chains (asynchronous operations) one behaviour invokes
NumTasks == 2
MaxSyncCalls == 1
MaxFaults == 1
MaxLen == 4
\* lists of watchers handed to registerWatchers where the calls are counted
MaxHandles == 2
None == "none"
Roots == {"r1", "r2"}
Tasks == 1..NumTasks

\* WorkspaceFolder.name of each folder
FolderName(r) == IF r = "r1" THEN "rails-app" ELSE "cli-tool"

\* the WorkspaceFolder of root r
WorkspaceFolder(r) == [name |-> FolderName(r), uri |-> r]

\* folder.uri.toString()
getFolderKey(folder) == folder.uri

\* workspace.textDocuments; folder is workspace.getWorkspaceFolder(doc.uri)
textDocuments ==
  << [uri |-> "d1", languageId |-> "ruby",      folder |-> "r1"],
     [uri |-> "d2", languageId |-> "gemfile",   folder |-> "r2"],
     [uri |-> "d3", languageId |-> "plaintext", folder |-> "r1"],
     [uri |-> "d4", languageId |-> "ruby",      folder |-> None],
     [uri |-> "d5", languageId |-> "ruby",      folder |-> "r1"] >>

supportedLanguage(languageId) == languageId \in {"ruby", "gemfile"}

\* a Map: a function whose domain is the set of keys it has
EmptyMap == [k \in {} |-> None]
MapSet(m, k, v) == [x \in (DOMAIN m) \cup {k} |-> IF x = k THEN v ELSE m[x]]
MapDelete(m, k) == [x \in (DOMAIN m) \ {k} |-> m[x]]
Range(f) == {f[x] : x \in DOMAIN f}

BulkOps == {"startAll", "restartAll", "change"}

\* A call chain: the operation called (op) with its argument (root, or
\* removed and added, or the index of document), the await it is suspended at (pc), the locals of the
\* innermost call (key, client, the Map iterator's position iter, the document
\* being sent doc), what its loops have left to do (todoStop, todoStart,
\* thenStart), and the number of clients that existed when it was called (seen).
IdleTask ==
  [op |-> "idle", root |-> None, removed |-> <<>>, added |-> <<>>,
   pc |-> "idle", key |-> None, client |-> 0,
   todoStop |-> <<>>, todoStart |-> <<>>, iter |-> 0, doc |-> 0,
   thenStart |-> FALSE, seen |-> 0, document |-> 0]

\* per folder: calls of shouldEnableForFolder, createClient, onError (and the
\* folder name in its last message) and onStatusUpdate, and the early returns
\* of startForFolder on a registered client and on a pending start
NoCalls == [enable |-> 0, factory |-> 0, error |-> 0, errorName |-> None,
            status |-> 0, running |-> 0, pending |-> 0]

\* A call chain of extension.ts's functions, and its module-level state before
\* anything is called: the two maps, every LanguageClient created (with the
\* cache instance its options captured), every cache instance, the calls of
\* createLanguageClient per folder, the calls of updateStatusBar, and the last
\* diagnostics a client pushed (client, uri).
IdleLegacyTask ==
  [op |-> "idle", root |-> None, pc |-> "idle", key |-> None, client |-> 0,
   doc |-> 0]

NoLegacy ==
  [languageClients |-> EmptyMap, diagnosticCaches |-> EmptyMap,
   conns |-> <<>>, caches |-> <<>>,
   tasks |-> [t \in Tasks |-> IdleLegacyTask],
   factory |-> [r \in Roots |-> 0], status |-> 0, pushed |-> <<>>]

\* normalizePathForGlob not called yet
NoGlob == [fsPath |-> <<>>, result |-> <<>>, done |-> FALSE]

\* the state as one record, so that a run of synchronous code is a composition
Cur ==
  [clients |-> clients, diagnosticCaches |-> diagnosticCaches,
   watchers |-> watchers, pendingStarts |-> pendingStarts, conns |-> conns,
   handles |-> handles, caches |-> caches, folders |-> folders,
   tasks |-> tasks, calls |-> calls, syncCalls |-> syncCalls,
   faults |-> faults]

\* the manager and its collaborators are in state s
Manages(s) ==
  /\ clients' = s.clients
  /\ diagnosticCaches' = s.diagnosticCaches
  /\ watchers' = s.watchers
  /\ pendingStarts' = s.pendingStarts
  /\ conns' = s.conns
  /\ handles' = s.handles
  /\ caches' = s.caches
  /\ folders' = s.folders
  /\ tasks' = s.tasks
  /\ calls' = s.calls
  /\ syncCalls' = s.syncCalls
  /\ faults' = s.faults

Becomes(s) ==
  /\ Manages(s)
  /\ glob' = glob
  /\ legacy' = legacy

Init ==
  /\ clients = EmptyMap
  /\ diagnosticCaches = EmptyMap
  /\ watchers = EmptyMap
  /\ pendingStarts = {}
  /\ conns = <<>>
  /\ handles = <<>>
  /\ caches = <<>>
  /\ folders = <<"r1", "r2">>
  /\ tasks = [t \in Tasks |-> IdleTask]
  /\ calls = [r \in Roots |-> NoCalls]
  /\ syncCalls = 0
  /\ faults = 0
  /\ glob = NoGlob
  /\ legacy = NoLegacy

\* ------------------------------------------------- returning to the caller

\* The awaited call of task t resolves: a top-level call is over, a call made by
\* startAll, restartAll or the folder listener resumes its caller's loop.
Return(s, t) ==
  [s EXCEPT !.tasks[t].pc = IF s.tasks[t].op \in BulkOps THEN "next" ELSE "done",
            !.tasks[t].key = None, !.tasks[t].client = 0,
            !.tasks[t].iter = 0, !.tasks[t].doc = 0]

\* The awaited call of task t rejects; no caller in this class catches it.
Reject(s, t) ==
  [s EXCEPT !.tasks[t].pc = "rejected",
            !.tasks[t].key = None, !.tasks[t].client = 0,
            !.tasks[t].iter = 0, !.tasks[t].doc = 0,
            !.tasks[t].todoStop = <<>>, !.tasks[t].todoStart = <<>>,
            !.tasks[t].thenStart = FALSE]

\* ------------------------------------------------------------ the watchers

dispose(hs, list) ==
  [i \in DOMAIN hs |->
     IF i \in Range(list) THEN [hs[i] EXCEPT !.disposed = TRUE] ELSE hs[i]]

cleanupWatchers(s, key) ==
  IF key \in DOMAIN s.watchers
  THEN [s EXCEPT !.handles = dispose(@, s.watchers[key]),
                 !.watchers = MapDelete(@, key)]
  ELSE s

cleanupAllWatchers(s) ==
  [s EXCEPT !.handles = [i \in DOMAIN @ |->
                           IF \E k \in DOMAIN s.watchers : i \in Range(s.watchers[k])
                           THEN [@[i] EXCEPT !.disposed = TRUE] ELSE @[i]],
            !.watchers = EmptyMap]

\* ----------------------------------------------------------- startForFolder

\* the call resolving without the finally block releasing the guard
startFinally_KeepsGuard(s, t) ==
  Return(s, t)

\* finally: the guard is released and the call resolves
startFinally(s, t) ==
  Return([s EXCEPT !.pendingStarts = @ \ {s.tasks[t].key}], t)

\* the catch block disposing the watchers of every folder
startCatch_AllWatchers(s, t) ==
  LET key == s.tasks[t].key
      s1 == [s EXCEPT !.clients = MapDelete(@, key)]
      s2 == cleanupAllWatchers(s1)
  IN  [s2 EXCEPT !.calls[key].error = @ + 1,
                 !.calls[key].errorName = FolderName(key),
                 !.tasks[t].pc = "onError"]

\* the catch block without the disposal of the folder's watchers
startCatch_NoCleanup(s, t) ==
  LET key == s.tasks[t].key
      s1 == [s EXCEPT !.clients = MapDelete(@, key)]
  IN  [s1 EXCEPT !.calls[key].error = @ + 1,
                 !.calls[key].errorName = FolderName(key),
                 !.tasks[t].pc = "onError"]

\* the catch block releasing the guard before it calls onError
startCatch_ReleasesGuard(s, t) ==
  LET key == s.tasks[t].key
      s1 == [s EXCEPT !.clients = MapDelete(@, key),
                      !.pendingStarts = @ \ {key}]
      s2 == cleanupWatchers(s1, key)
  IN  [s2 EXCEPT !.calls[key].error = @ + 1,
                 !.calls[key].errorName = FolderName(key),
                 !.tasks[t].pc = "onError"]

\* catch: unregister, dispose the folder's watchers, report through onError
startCatch(s, t) ==
  LET key == s.tasks[t].key
      s1 == [s EXCEPT !.clients = MapDelete(@, key)]
      s2 == cleanupWatchers(s1, key)
  IN  [s2 EXCEPT !.calls[key].error = @ + 1,
                 !.calls[key].errorName = FolderName(key),
                 !.tasks[t].pc = "onError"]

\* startForFolder that does not add its key to pendingStarts
startForFolder_NoGuardAdd(s, t, folder) ==
  LET key == getFolderKey(folder)
  IN  IF key \in DOMAIN s.clients
      THEN Return([s EXCEPT !.calls[key].running = @ + 1], t)
      ELSE IF key \in s.pendingStarts
      THEN Return([s EXCEPT !.calls[key].pending = @ + 1], t)
      ELSE [s EXCEPT !.calls[key].enable = @ + 1,
                     !.tasks[t].pc = "enable",
                     !.tasks[t].key = key]

\* startForFolder without the early return on a registered client
startForFolder_NoHasCheck(s, t, folder) ==
  LET key == getFolderKey(folder)
  IN  IF key \in s.pendingStarts
      THEN Return([s EXCEPT !.calls[key].pending = @ + 1], t)
      ELSE [s EXCEPT !.pendingStarts = @ \cup {key},
                     !.calls[key].enable = @ + 1,
                     !.tasks[t].pc = "enable",
                     !.tasks[t].key = key]

\* startForFolder without the early return on a pending start
startForFolder_NoPendingCheck(s, t, folder) ==
  LET key == getFolderKey(folder)
  IN  IF key \in DOMAIN s.clients
      THEN Return([s EXCEPT !.calls[key].running = @ + 1], t)
      ELSE [s EXCEPT !.pendingStarts = @ \cup {key},
                     !.calls[key].enable = @ + 1,
                     !.tasks[t].pc = "enable",
                     !.tasks[t].key = key]

\* the two early returns, the guard, and the call of shouldEnableForFolder
startForFolder(s, t, folder) ==
  LET key == getFolderKey(folder)
  IN  IF key \in DOMAIN s.clients
      THEN Return([s EXCEPT !.calls[key].running = @ + 1], t)
      ELSE IF key \in s.pendingStarts
      THEN Return([s EXCEPT !.calls[key].pending = @ + 1], t)
      ELSE [s EXCEPT !.pendingStarts = @ \cup {key},
                     !.calls[key].enable = @ + 1,
                     !.tasks[t].pc = "enable",
                     !.tasks[t].key = key]

\* a declined start that returns without running the finally block
afterShouldEnable_KeepsGuard(s, t, enabled) ==
  IF ~enabled THEN Return(s, t)
  ELSE [s EXCEPT !.calls[s.tasks[t].key].factory = @ + 1,
                 !.tasks[t].pc = "factory"]

\* shouldEnableForFolder resolved: return when declined, else call createClient
afterShouldEnable(s, t, enabled) ==
  IF ~enabled THEN startFinally(s, t)
  ELSE [s EXCEPT !.calls[s.tasks[t].key].factory = @ + 1,
                 !.tasks[t].pc = "factory"]

\* the handshake issued on a client that is not put in the table
afterCreateClient_NoRegister(s, t, produced) ==
  LET key == s.tasks[t].key
      c == Len(s.conns) + 1
  IN  IF ~produced THEN startFinally(s, t)
      ELSE [s EXCEPT !.conns = Append(@, [root |-> key, started |-> FALSE,
                                          stops |-> 0, opens |-> <<>>,
                                          cache |-> 0]),
                     !.tasks[t].client = c,
                     !.tasks[t].pc = "handshake"]

\* createClient resolved: register the client, then call client.start()
afterCreateClient(s, t, produced) ==
  LET key == s.tasks[t].key
      c == Len(s.conns) + 1
  IN  IF ~produced THEN startFinally(s, t)
      ELSE [s EXCEPT !.conns = Append(@, [root |-> key, started |-> FALSE,
                                          stops |-> 0, opens |-> <<>>,
                                          cache |-> 0]),
                     !.clients = MapSet(@, key, c),
                     !.tasks[t].client = c,
                     !.tasks[t].pc = "handshake"]

\* does syncOpenDocuments send textDocuments[i] to the client of folder key
syncsDocument(i, key) ==
  /\ supportedLanguage(textDocuments[i].languageId)
  /\ textDocuments[i].folder # None
  /\ getFolderKey(WorkspaceFolder(textDocuments[i].folder)) = key

\* onStatusUpdate called before the documents are sent
syncOpenDocuments_StatusFirst(s, t, i) ==
  LET key == s.tasks[t].key
      c == s.tasks[t].client
      rest == {j \in i..Len(textDocuments) : syncsDocument(j, key)}
      s1 == IF i = 1 THEN [s EXCEPT !.calls[key].status = @ + 1] ELSE s
  IN  IF rest # {}
      THEN LET j == CHOOSE j \in rest : \A k \in rest : j <= k
           IN  [s1 EXCEPT !.conns[c].opens = Append(@, textDocuments[j].uri),
                          !.tasks[t].doc = j,
                          !.tasks[t].pc = "send"]
      ELSE startFinally(s1, t)

\* the documents of every folder sent to the client
syncOpenDocuments_NoFolderCheck(s, t, i) ==
  LET key == s.tasks[t].key
      c == s.tasks[t].client
      rest == {j \in i..Len(textDocuments) :
                 /\ supportedLanguage(textDocuments[j].languageId)
                 /\ textDocuments[j].folder # None}
  IN  IF rest # {}
      THEN LET j == CHOOSE j \in rest : \A k \in rest : j <= k
           IN  [s EXCEPT !.conns[c].opens = Append(@, textDocuments[j].uri),
                         !.tasks[t].doc = j,
                         !.tasks[t].pc = "send"]
      ELSE startFinally([s EXCEPT !.calls[key].status = @ + 1], t)

\* syncOpenDocuments from document i on: send the next document of the folder
\* and suspend, or, with none left, run the rest of afterStart and of the try
syncOpenDocuments(s, t, i) ==
  LET key == s.tasks[t].key
      c == s.tasks[t].client
      rest == {j \in i..Len(textDocuments) : syncsDocument(j, key)}
  IN  IF rest # {}
      THEN LET j == CHOOSE j \in rest : \A k \in rest : j <= k
           IN  [s EXCEPT !.conns[c].opens = Append(@, textDocuments[j].uri),
                         !.tasks[t].doc = j,
                         !.tasks[t].pc = "send"]
      ELSE startFinally([s EXCEPT !.calls[key].status = @ + 1], t)

\* afterStart leaving the cache of the folder as it is
afterStart_KeepsCache(s, t) ==
  LET c == s.tasks[t].client
  IN  syncOpenDocuments([s EXCEPT !.conns[c].started = TRUE], t, 1)

\* client.start() resolved: afterStart replaces the cache, then the replay
afterStart(s, t) ==
  LET key == s.tasks[t].key
      c == s.tasks[t].client
      s1 == [s EXCEPT !.conns[c].started = TRUE,
                      !.conns[c].cache = Len(s.caches) + 1,
                      !.caches = Append(@, {}),
                      !.diagnosticCaches = MapSet(@, key, Len(s.caches) + 1)]
  IN  syncOpenDocuments(s1, t, 1)

\* a throw of onError leaving the call without the finally block
afterOnError_NoFinally(s, t, ok) ==
  IF ok THEN startFinally(s, t) ELSE Reject(s, t)

\* the catch block throwing the error again once onError has returned
afterOnError_Rethrows(s, t, ok) ==
  Reject(startFinally(s, t), t)

\* onError resolved or threw: the finally block runs in both cases
afterOnError(s, t, ok) ==
  IF ok THEN startFinally(s, t) ELSE Reject(startFinally(s, t), t)

\* ------------------------------------------------------------ stopForFolder

\* look the client up; return when there is none, else call client.stop()
stopForFolder(s, t, folder) ==
  LET key == getFolderKey(folder)
  IN  IF key \notin DOMAIN s.clients THEN Return(s, t)
      ELSE LET client == s.clients[key]
           IN  [s EXCEPT !.conns[client].stops = @ + 1,
                         !.tasks[t].key = key,
                         !.tasks[t].client = client,
                         !.tasks[t].pc = "stop"]

\* stopForFolder that leaves the folder's cache in the registry
afterStop_KeepsCache(s, t) ==
  LET key == s.tasks[t].key
      s1 == [s EXCEPT !.clients = MapDelete(@, key)]
  IN  Return(cleanupWatchers(s1, key), t)

\* client.stop() resolved: unregister, delete the cache, dispose the watchers
afterStop(s, t) ==
  LET key == s.tasks[t].key
      s1 == [s EXCEPT !.clients = MapDelete(@, key),
                      !.diagnosticCaches = MapDelete(@, key)]
  IN  Return(cleanupWatchers(s1, key), t)

\* a rejected client.stop() followed by the cleanup all the same
afterStopThrows_CleansUp(s, t) ==
  LET key == s.tasks[t].key
      s1 == [s EXCEPT !.clients = MapDelete(@, key),
                      !.diagnosticCaches = MapDelete(@, key)]
  IN  Reject(cleanupWatchers(s1, key), t)

\* client.stop() rejected: nothing catches it, stopForFolder rejects
afterStopThrows(s, t) == Reject(s, t)

\* ------------------------------------------------------------------ stopAll

\* The entry a Map iterator standing after entry `last` visits next.  A Map is
\* iterated in insertion order and the iterator is live.  Every clients.set
\* inserts an absent key with the client just created, so insertion order is
\* the order of the clients' numbers.
nextEntry(m, last) ==
  LET later == {k \in DOMAIN m : m[k] > last}
  IN  IF later = {} THEN None
      ELSE CHOOSE k \in later : \A j \in later : m[k] <= m[j]

\* the for-of loop of stopAll from the iterator's position on, and what follows it
stopAllFrom(s, t, last) ==
  LET key == nextEntry(s.clients, last)
  IN  IF key = None
      THEN Return(cleanupAllWatchers([s EXCEPT !.diagnosticCaches = EmptyMap]), t)
      ELSE LET client == s.clients[key]
           IN  [s EXCEPT !.conns[client].stops = @ + 1,
                         !.tasks[t].key = key,
                         !.tasks[t].client = client,
                         !.tasks[t].iter = client,
                         !.tasks[t].pc = "stopAll"]

stopAll(s, t) == stopAllFrom(s, t, 0)

\* stopAll's loop going on without deleting the key of the stopped client
afterStopAllStop_KeepsKey(s, t) ==
  stopAllFrom(s, t, s.tasks[t].iter)

\* client.stop() resolved inside the loop: delete the key, go on iterating
afterStopAllStop(s, t) ==
  stopAllFrom([s EXCEPT !.clients = MapDelete(@, s.tasks[t].key)], t,
              s.tasks[t].iter)

\* a rejected client.stop() caught inside the loop, which goes on
afterStopAllStopThrows_Continues(s, t) ==
  stopAllFrom([s EXCEPT !.clients = MapDelete(@, s.tasks[t].key)], t,
              s.tasks[t].iter)

\* client.stop() rejected inside the loop: nothing catches it, stopAll rejects,
\* and so does a restartAll awaiting it
afterStopAllStopThrows(s, t) == Reject(s, t)

\* ------------------------------------- startAll, restartAll, folder listener

\* startAll's loop over the folders it read when it was called
startAll(s, t) ==
  LET me == s.tasks[t]
  IN  IF me.todoStart = <<>> THEN [s EXCEPT !.tasks[t].pc = "done"]
      ELSE startForFolder([s EXCEPT !.tasks[t].todoStart = Tail(@)], t,
                          WorkspaceFolder(Head(me.todoStart)))

\* the listener with its loops in the other order: added folders first
folderListener_StartsFirst(s, t) ==
  LET me == s.tasks[t]
  IN  IF me.todoStart # <<>>
      THEN startForFolder([s EXCEPT !.tasks[t].todoStart = Tail(@)], t,
                          WorkspaceFolder(Head(me.todoStart)))
      ELSE IF me.todoStop # <<>>
      THEN stopForFolder([s EXCEPT !.tasks[t].todoStop = Tail(@)], t,
                         WorkspaceFolder(Head(me.todoStop)))
      ELSE [s EXCEPT !.tasks[t].pc = "done"]

\* the listener's two loops: every removed folder, then every added folder
folderListener(s, t) ==
  LET me == s.tasks[t]
  IN  IF me.todoStop # <<>>
      THEN stopForFolder([s EXCEPT !.tasks[t].todoStop = Tail(@)], t,
                         WorkspaceFolder(Head(me.todoStop)))
      ELSE startAll(s, t)

\* a caller resumes after the call it awaited: restartAll calls startAll once
\* stopAll has resolved, the loops go on with their next folder
resume(s, t) ==
  IF s.tasks[t].thenStart
  THEN startAll([s EXCEPT !.tasks[t].thenStart = FALSE,
                          !.tasks[t].todoStart = s.folders], t)
  ELSE folderListener(s, t)

\* restartAll: stopAll, and startAll after it
restartAll(s, t) ==
  stopAll([s EXCEPT !.tasks[t].thenStart = TRUE], t)

\* -------------------------------------------------------- synchronous calls

registerWatchers(s, folder) ==
  LET h == Len(s.handles) + 1
  IN  [s EXCEPT !.handles = Append(@, [root |-> getFolderKey(folder),
                                       disposed |-> FALSE]),
                !.watchers = MapSet(@, getFolderKey(folder), <<h>>)]

\* getDiagnosticCacheForFolder creating an instance on every call
getDiagnosticCacheForFolder_AlwaysNew(s, folder) ==
  [s EXCEPT !.caches = Append(@, {}),
            !.diagnosticCaches = MapSet(@, getFolderKey(folder), Len(s.caches) + 1)]

getDiagnosticCacheForFolder(s, folder) ==
  LET key == getFolderKey(folder)
  IN  IF key \in DOMAIN s.diagnosticCaches THEN s
      ELSE [s EXCEPT !.caches = Append(@, {}),
                     !.diagnosticCaches = MapSet(@, key, Len(s.caches) + 1)]

\* ------------------------------------ documents and diagnostics

\* the keys of the cache the registry holds for key, if it holds one
cacheKeys(s, key) ==
  IF key \in DOMAIN s.diagnosticCaches
  THEN s.caches[s.diagnosticCaches[key]] ELSE {}

\* notifyDocumentOpenIfNeeded sending without looking in the cache
notifyDocumentOpenIfNeeded_Always(s, t, i) ==
  LET document == textDocuments[i]
  IN  IF ~supportedLanguage(document.languageId) THEN Return(s, t)
      ELSE IF document.folder = None THEN Return(s, t)
      ELSE LET folder == WorkspaceFolder(document.folder)
               key == getFolderKey(folder)
           IN  IF key \notin DOMAIN s.clients THEN Return(s, t)
               ELSE LET client == s.clients[key]
                        s1 == getDiagnosticCacheForFolder(s, folder)
                    IN  [s1 EXCEPT !.conns[client].opens =
                                     Append(@, document.uri),
                                   !.tasks[t].key = key,
                                   !.tasks[t].client = client,
                                   !.tasks[t].pc = "notify"]

\* notifyDocumentOpenIfNeeded for textDocuments[i]: the three early returns,
\* the cache lookup, and the send when the document is not a key of the cache
notifyDocumentOpenIfNeeded(s, t, i) ==
  LET document == textDocuments[i]
  IN  IF ~supportedLanguage(document.languageId) THEN Return(s, t)
      ELSE IF document.folder = None THEN Return(s, t)
      ELSE LET folder == WorkspaceFolder(document.folder)
               key == getFolderKey(folder)
           IN  IF key \notin DOMAIN s.clients THEN Return(s, t)
               ELSE LET client == s.clients[key]
                        s1 == getDiagnosticCacheForFolder(s, folder)
                    IN  IF document.uri \notin cacheKeys(s1, key)
                        THEN [s1 EXCEPT !.conns[client].opens =
                                          Append(@, document.uri),
                                        !.tasks[t].key = key,
                                        !.tasks[t].client = client,
                                        !.tasks[t].pc = "notify"]
                        ELSE Return(s1, t)

\* the handleDiagnostics middleware of client c: the cache instance its options
\* captured gets the document as a key, and the status is refreshed
handleDiagnostics(s, c, id, uri) ==
  [s EXCEPT !.caches[id] = @ \cup {uri},
            !.calls[s.conns[c].root].status = @ + 1]

\* ------------------------------- the free-standing functions of extension.ts

\* l is the module-level state of extension.ts; the awaited call of task t
\* resolves or rejects to its caller
legacyReturn(l, t) ==
  [l EXCEPT !.tasks[t].pc = "done", !.tasks[t].key = None,
            !.tasks[t].client = 0, !.tasks[t].doc = 0]

legacyReject(l, t) ==
  [l EXCEPT !.tasks[t].pc = "rejected", !.tasks[t].key = None,
            !.tasks[t].client = 0, !.tasks[t].doc = 0]

\* getDiagnosticCache: the folder's cache, created when there is none
getDiagnosticCache(l, folder) ==
  LET key == getFolderKey(folder)
  IN  IF key \in DOMAIN l.diagnosticCaches THEN l
      ELSE [l EXCEPT !.caches = Append(@, {}),
                     !.diagnosticCaches = MapSet(@, key, Len(l.caches) + 1)]

\* the early return on a registered client, and the call of shouldEnableForFolder
startLanguageServerForFolder(l, t, folder) ==
  LET key == getFolderKey(folder)
  IN  IF key \in DOMAIN l.languageClients THEN legacyReturn(l, t)
      ELSE [l EXCEPT !.tasks[t].pc = "enable", !.tasks[t].key = key]

\* shouldEnableForFolder resolved: return when declined, else createLanguageClient
legacyAfterShouldEnable(l, t, enabled) ==
  IF ~enabled THEN legacyReturn(l, t)
  ELSE [l EXCEPT !.factory[l.tasks[t].key] = @ + 1,
                 !.tasks[t].pc = "factory"]

\* buildExecutable resolved.  With an executable, buildLanguageClientOptions
\* captures getDiagnosticCache(folder) for the handleDiagnostics middleware and
\* the client is created, registered, and client.start() is called.
createLanguageClient(l, t, produced) ==
  LET key == l.tasks[t].key
      l1 == getDiagnosticCache(l, WorkspaceFolder(key))
      c == Len(l.conns) + 1
  IN  IF ~produced THEN legacyReturn(l, t)
      ELSE [l1 EXCEPT !.conns = Append(@, [root |-> key, started |-> FALSE,
                                           stops |-> 0, opens |-> <<>>,
                                           captured |-> l1.diagnosticCaches[key]]),
                      !.languageClients = MapSet(@, key, c),
                      !.tasks[t].client = c,
                      !.tasks[t].pc = "handshake"]

\* syncOpenDocumentsWithLanguageServer from document i on, then updateStatusBar
\* and the return of startLanguageServerForFolder
syncOpenDocumentsWithLanguageServer(l, t, i) ==
  LET key == l.tasks[t].key
      c == l.tasks[t].client
      rest == {j \in i..Len(textDocuments) : syncsDocument(j, key)}
  IN  IF rest # {}
      THEN LET j == CHOOSE j \in rest : \A k \in rest : j <= k
           IN  [l EXCEPT !.conns[c].opens = Append(@, textDocuments[j].uri),
                         !.tasks[t].doc = j,
                         !.tasks[t].pc = "send"]
      ELSE legacyReturn([l EXCEPT !.status = @ + 1], t)

\* client.start() resolved: afterStartLanguageServer replaces the folder's cache
afterStartLanguageServer(l, t) ==
  LET key == l.tasks[t].key
      c == l.tasks[t].client
      l1 == [l EXCEPT !.conns[c].started = TRUE,
                      !.caches = Append(@, {}),
                      !.diagnosticCaches = MapSet(@, key, Len(l.caches) + 1)]
  IN  syncOpenDocumentsWithLanguageServer(l1, t, 1)

\* catch: unregister and call displayError (taken to be dismissed by the user)
legacyCatch(l, t) ==
  [l EXCEPT !.languageClients = MapDelete(@, l.tasks[t].key),
            !.tasks[t].pc = "onError"]

\* look the client up; return when there is none, else call client.stop()
stopLanguageServerForFolder(l, t, folder) ==
  LET key == getFolderKey(folder)
  IN  IF key \notin DOMAIN l.languageClients THEN legacyReturn(l, t)
      ELSE LET client == l.languageClients[key]
           IN  [l EXCEPT !.conns[client].stops = @ + 1,
                         !.tasks[t].key = key,
                         !.tasks[t].client = client,
                         !.tasks[t].pc = "stop"]

\* client.stop() resolved: unregister and delete the cache
legacyAfterStop(l, t) ==
  LET key == l.tasks[t].key
  IN  legacyReturn([l EXCEPT !.languageClients = MapDelete(@, key),
                             !.diagnosticCaches = MapDelete(@, key)], t)

\* the handleDiagnostics middleware of client c: diagnosticCache.set on the
\* instance the options captured, then updateStatusBar
legacyHandleDiagnostics(l, c, uri) ==
  [l EXCEPT !.caches[l.conns[c].captured] = @ \cup {uri},
            !.status = @ + 1,
            !.pushed = <<c, uri>>]

\* ------------------------------------------------------------------ actions

\* task t is free, and the tasks are taken in order
Free(t) ==
  /\ tasks[t].op = "idle"
  /\ \A u \in Tasks : u < t => tasks[u].op # "idle"

Called(t, op) == [Cur EXCEPT !.tasks[t].op = op]

At(t, pc) == tasks[t].pc = pc

\* the state in which one more awaited call has thrown
Thrown == [Cur EXCEPT !.faults = @ + 1]

\* the sequences that list every element of S once
Listings(S) ==
  {q \in UNION {[1..n -> S] : n \in {Cardinality(S)}} :
     \A i, j \in DOMAIN q : i # j => q[i] # q[j]}

Keep(q, S) == SelectSeq(q, LAMBDA x : x \in S)

CallStartForFolder(t, r) ==
  /\ Free(t)
  /\ Becomes(startForFolder([Called(t, "start") EXCEPT !.tasks[t].root = r], t,
                          WorkspaceFolder(r)))

CallStopForFolder(t, r) ==
  /\ Free(t)
  /\ Becomes(stopForFolder([Called(t, "stop") EXCEPT !.tasks[t].root = r], t,
                          WorkspaceFolder(r)))

CallStartAll(t) ==
  /\ Free(t)
  /\ Becomes(startAll([Called(t, "startAll") EXCEPT !.tasks[t].todoStart = folders], t))

CallStopAll(t) ==
  /\ Free(t)
  /\ Becomes(stopAll([Called(t, "stopAll") EXCEPT !.tasks[t].seen = Len(conns)], t))

CallRestartAll(t) ==
  /\ Free(t)
  /\ Becomes(restartAll([Called(t, "restartAll") EXCEPT
                          !.tasks[t].seen = Len(conns)], t))

\* the host removes and adds workspace folders and notifies the listener
FoldersChanged(t, removed, added) ==
  /\ Free(t)
  /\ removed # <<>> \/ added # <<>>
  /\ Becomes(folderListener(
       [Called(t, "change") EXCEPT
          !.tasks[t].seen = Len(conns),
          !.folders = Keep(folders, Range(folders) \ Range(removed)) \o added,
          !.tasks[t].removed = removed, !.tasks[t].added = added,
          !.tasks[t].todoStop = removed, !.tasks[t].todoStart = added], t))

Resume(t) ==
  /\ At(t, "next")
  /\ Becomes(resume(Cur, t))

ShouldEnableResolves(t, enabled) ==
  /\ At(t, "enable")
  /\ Becomes(afterShouldEnable(Cur, t, enabled))

ShouldEnableThrows(t) ==
  /\ At(t, "enable")
  /\ faults < MaxFaults
  /\ Becomes(startCatch(Thrown, t))

CreateClientResolves(t, produced) ==
  /\ At(t, "factory")
  /\ Becomes(afterCreateClient(Cur, t, produced))

CreateClientThrows(t) ==
  /\ At(t, "factory")
  /\ faults < MaxFaults
  /\ Becomes(startCatch(Thrown, t))

StartResolves(t) ==
  /\ At(t, "handshake")
  /\ Becomes(afterStart(Cur, t))

StartThrows(t) ==
  /\ At(t, "handshake")
  /\ faults < MaxFaults
  /\ Becomes(startCatch(Thrown, t))

SendResolves(t) ==
  /\ At(t, "send")
  /\ Becomes(syncOpenDocuments(Cur, t, tasks[t].doc + 1))

SendThrows(t) ==
  /\ At(t, "send")
  /\ faults < MaxFaults
  /\ Becomes(startCatch(Thrown, t))

OnErrorResolves(t) ==
  /\ At(t, "onError")
  /\ Becomes(afterOnError(Cur, t, TRUE))

\* onError is awaited once per caught fault, so the budget bounds it already
OnErrorThrows(t) ==
  /\ At(t, "onError")
  /\ Becomes(afterOnError(Cur, t, FALSE))

StopResolves(t) ==
  /\ At(t, "stop")
  /\ Becomes(afterStop(Cur, t))

StopThrows(t) ==
  /\ At(t, "stop")
  /\ faults < MaxFaults
  /\ Becomes(afterStopThrows(Thrown, t))

StopAllStopResolves(t) ==
  /\ At(t, "stopAll")
  /\ Becomes(afterStopAllStop(Cur, t))

StopAllStopThrows(t) ==
  /\ At(t, "stopAll")
  /\ faults < MaxFaults
  /\ Becomes(afterStopAllStopThrows(Thrown, t))

RegisterWatchers(r) ==
  /\ syncCalls < MaxSyncCalls
  /\ Becomes([registerWatchers(Cur, WorkspaceFolder(r)) EXCEPT !.syncCalls = @ + 1])

\* registerWatchers called as often as there are handles to hand over
RegisterWatchersAgain(r) ==
  /\ Len(handles) < MaxHandles
  /\ Becomes(registerWatchers(Cur, WorkspaceFolder(r)))

GetDiagnosticCacheForFolder(r) ==
  /\ syncCalls < MaxSyncCalls
  /\ Becomes([getDiagnosticCacheForFolder(Cur, WorkspaceFolder(r)) EXCEPT !.syncCalls = @ + 1])

CallNotifyDocumentOpenIfNeeded(t, i) ==
  /\ Free(t)
  /\ Becomes(notifyDocumentOpenIfNeeded(
       [Called(t, "notify") EXCEPT !.tasks[t].document = i], t, i))

NotifyResolves(t) ==
  /\ At(t, "notify")
  /\ Becomes(Return(Cur, t))

NotifyThrows(t) ==
  /\ At(t, "notify")
  /\ faults < MaxFaults
  /\ Becomes(Reject(Thrown, t))

\* client c reports diagnostics for a document; which cache instance its
\* options captured is the factory's business
HandleDiagnostics(c, id, uri) ==
  /\ syncCalls < MaxSyncCalls
  /\ Becomes([handleDiagnostics(Cur, c, id, uri) EXCEPT !.syncCalls = @ + 1])

\* The awaited calls of a start attempt resolve or throw.
StartSteps ==
  \/ \E t \in Tasks, enabled \in BOOLEAN : ShouldEnableResolves(t, enabled)
  \/ \E t \in Tasks : ShouldEnableThrows(t)
  \/ \E t \in Tasks, produced \in BOOLEAN : CreateClientResolves(t, produced)
  \/ \E t \in Tasks : CreateClientThrows(t)
  \/ \E t \in Tasks : StartResolves(t)
  \/ \E t \in Tasks : StartThrows(t)
  \/ \E t \in Tasks : SendResolves(t)
  \/ \E t \in Tasks : SendThrows(t)
  \/ \E t \in Tasks : OnErrorResolves(t)
  \/ \E t \in Tasks : OnErrorThrows(t)

\* The stop handshake of stopForFolder resolves or throws.
StopSteps ==
  \/ \E t \in Tasks : StopResolves(t)
  \/ \E t \in Tasks : StopThrows(t)

\* The stop handshake inside stopAll's loop resolves or throws.
StopAllSteps ==
  \/ \E t \in Tasks : StopAllStopResolves(t)
  \/ \E t \in Tasks : StopAllStopThrows(t)

SyncCalls ==
  \/ \E r \in Roots : RegisterWatchers(r)
  \/ \E r \in Roots : GetDiagnosticCacheForFolder(r)

\* The send of notifyDocumentOpenIfNeeded resolves or throws.
NotifySteps ==
  \/ \E t \in Tasks : NotifyResolves(t)
  \/ \E t \in Tasks : NotifyThrows(t)

Diagnostics ==
  \E c \in DOMAIN conns, id \in DOMAIN caches, i \in DOMAIN textDocuments :
    HandleDiagnostics(c, id, textDocuments[i].uri)

\* startForFolder and stopForFolder called for single folders
NextFolder ==
  \/ \E t \in Tasks, r \in Roots : CallStartForFolder(t, r)
  \/ \E t \in Tasks, r \in Roots : CallStopForFolder(t, r)
  \/ StartSteps
  \/ StopSteps
  \/ SyncCalls

Next ==
  \/ \E t \in Tasks, r \in Roots : CallStartForFolder(t, r)
  \/ \E t \in Tasks, r \in Roots : CallStopForFolder(t, r)
  \/ \E t \in Tasks : CallStartAll(t)
  \/ \E t \in Tasks : CallStopAll(t)
  \/ \E t \in Tasks : CallRestartAll(t)
  \/ \E t \in Tasks, R \in SUBSET Range(folders) :
       \E A \in SUBSET (Roots \ (Range(folders) \ R)) :
         \E added \in Listings(A) : FoldersChanged(t, Keep(folders, R), added)
  \/ \E t \in Tasks : Resume(t)
  \/ StartSteps
  \/ StopSteps
  \/ StopAllSteps
  \/ SyncCalls
  \/ \E t \in Tasks, i \in DOMAIN textDocuments :
       CallNotifyDocumentOpenIfNeeded(t, i)
  \/ NotifySteps
  \/ Diagnostics

\* startAll, stopAll and restartAll
NextAll ==
  \/ \E t \in Tasks : CallStartAll(t)
  \/ \E t \in Tasks : CallStopAll(t)
  \/ \E t \in Tasks : CallRestartAll(t)
  \/ \E t \in Tasks : Resume(t)
  \/ StartSteps
  \/ StopAllSteps
  \/ SyncCalls

\* the workspace folder listener, beside startForFolder
NextListener ==
  \/ \E t \in Tasks, r \in Roots : CallStartForFolder(t, r)
  \/ \E t \in Tasks, R \in SUBSET Range(folders) :
       \E A \in SUBSET (Roots \ (Range(folders) \ R)) :
         \E added \in Listings(A) : FoldersChanged(t, Keep(folders, R), added)
  \/ \E t \in Tasks : Resume(t)
  \/ StartSteps
  \/ StopSteps

SpecAll == Init /\ [][NextAll]_vars

\* the listener is notified in a workspace of one folder or of two
InitListener ==
  /\ clients = EmptyMap
  /\ diagnosticCaches = EmptyMap
  /\ watchers = EmptyMap
  /\ pendingStarts = {}
  /\ conns = <<>>
  /\ handles = <<>>
  /\ caches = <<>>
  /\ folders \in {<<"r1">>, <<"r1", "r2">>}
  /\ tasks = [t \in Tasks |-> IdleTask]
  /\ calls = [r \in Roots |-> NoCalls]
  /\ syncCalls = 0
  /\ faults = 0
  /\ glob = NoGlob
  /\ legacy = NoLegacy

SpecListener == InitListener /\ [][NextListener]_vars
SpecFolder == Init /\ [][NextFolder]_vars

\* documents becoming visible and diagnostics arriving, beside startForFolder
\* and stopForFolder
NextNotify ==
  \/ \E t \in Tasks, r \in Roots : CallStartForFolder(t, r)
  \/ \E t \in Tasks, r \in Roots : CallStopForFolder(t, r)
  \/ \E t \in Tasks, i \in DOMAIN textDocuments :
       CallNotifyDocumentOpenIfNeeded(t, i)
  \/ StartSteps
  \/ StopSteps
  \/ NotifySteps
  \/ Diagnostics
  \/ \E r \in Roots : GetDiagnosticCacheForFolder(r)

SpecNotify == Init /\ [][NextNotify]_vars

\* The manager and the functions of extension.ts driven together.  Call chain t
\* is the same trigger in both; an awaited call of call chain t returns with
\* the same outcome in both, in whichever of the two is awaiting it.
Awaits(t, pc) == At(t, pc) \/ legacy.tasks[t].pc = pc

Both(t, pc, s, l) ==
  /\ Manages(IF At(t, pc) THEN s ELSE Cur)
  /\ legacy' = IF legacy.tasks[t].pc = pc THEN l ELSE legacy
  /\ glob' = glob

BothThrow(t, pc, s, l) ==
  /\ faults < MaxFaults
  /\ Manages([(IF At(t, pc) THEN s ELSE Cur) EXCEPT !.faults = faults + 1])
  /\ legacy' = IF legacy.tasks[t].pc = pc THEN l ELSE legacy
  /\ glob' = glob

BothStart(t, r) ==
  /\ Free(t)
  /\ Manages(startForFolder([Called(t, "start") EXCEPT !.tasks[t].root = r], t,
                            WorkspaceFolder(r)))
  /\ legacy' = startLanguageServerForFolder(
                 [legacy EXCEPT !.tasks[t].op = "start", !.tasks[t].root = r], t,
                 WorkspaceFolder(r))
  /\ glob' = glob

BothStop(t, r) ==
  /\ Free(t)
  /\ Manages(stopForFolder([Called(t, "stop") EXCEPT !.tasks[t].root = r], t,
                           WorkspaceFolder(r)))
  /\ legacy' = stopLanguageServerForFolder(
                 [legacy EXCEPT !.tasks[t].op = "stop", !.tasks[t].root = r], t,
                 WorkspaceFolder(r))
  /\ glob' = glob

BothShouldEnableResolves(t, enabled) ==
  /\ Awaits(t, "enable")
  /\ Both(t, "enable", afterShouldEnable(Cur, t, enabled),
       legacyAfterShouldEnable(legacy, t, enabled))

\* shouldEnableForFolder is awaited outside the try of startLanguageServerForFolder
BothShouldEnableThrows(t) ==
  /\ Awaits(t, "enable")
  /\ BothThrow(t, "enable", startCatch(Cur, t), legacyReject(legacy, t))

BothCreateClientResolves(t, produced) ==
  /\ Awaits(t, "factory")
  /\ Both(t, "factory", afterCreateClient(Cur, t, produced),
       createLanguageClient(legacy, t, produced))

BothCreateClientThrows(t) ==
  /\ Awaits(t, "factory")
  /\ BothThrow(t, "factory", startCatch(Cur, t), legacyCatch(legacy, t))

BothStartResolves(t) ==
  /\ Awaits(t, "handshake")
  /\ Both(t, "handshake", afterStart(Cur, t), afterStartLanguageServer(legacy, t))

BothStartThrows(t) ==
  /\ Awaits(t, "handshake")
  /\ BothThrow(t, "handshake", startCatch(Cur, t), legacyCatch(legacy, t))

BothSendResolves(t) ==
  /\ Awaits(t, "send")
  /\ Manages(IF At(t, "send")
             THEN syncOpenDocuments(Cur, t, tasks[t].doc + 1) ELSE Cur)
  /\ legacy' = IF legacy.tasks[t].pc = "send"
               THEN syncOpenDocumentsWithLanguageServer(
                      legacy, t, legacy.tasks[t].doc + 1)
               ELSE legacy
  /\ glob' = glob

BothSendThrows(t) ==
  /\ Awaits(t, "send")
  /\ BothThrow(t, "send", startCatch(Cur, t), legacyCatch(legacy, t))

\* onError, and displayError in extension.ts, return
BothOnErrorResolves(t) ==
  /\ Awaits(t, "onError")
  /\ Both(t, "onError", afterOnError(Cur, t, TRUE), legacyReturn(legacy, t))

BothStopResolves(t) ==
  /\ Awaits(t, "stop")
  /\ Both(t, "stop", afterStop(Cur, t), legacyAfterStop(legacy, t))

BothStopThrows(t) ==
  /\ Awaits(t, "stop")
  /\ BothThrow(t, "stop", afterStopThrows(Cur, t), legacyReject(legacy, t))

\* a client of extension.ts reports diagnostics for a document
PushDiagnostics(c, uri) ==
  /\ syncCalls < MaxSyncCalls
  /\ Manages([Cur EXCEPT !.syncCalls = @ + 1])
  /\ legacy' = legacyHandleDiagnostics(legacy, c, uri)
  /\ glob' = glob

LegacyDiagnostics ==
  \E c \in DOMAIN legacy.conns, i \in DOMAIN textDocuments :
    PushDiagnostics(c, textDocuments[i].uri)

NextDuplicate ==
  \/ \E t \in Tasks, r \in Roots : BothStart(t, r)
  \/ \E t \in Tasks, r \in Roots : BothStop(t, r)
  \/ \E t \in Tasks, enabled \in BOOLEAN : BothShouldEnableResolves(t, enabled)
  \/ \E t \in Tasks : BothShouldEnableThrows(t)
  \/ \E t \in Tasks, produced \in BOOLEAN : BothCreateClientResolves(t, produced)
  \/ \E t \in Tasks : BothCreateClientThrows(t)
  \/ \E t \in Tasks : BothStartResolves(t)
  \/ \E t \in Tasks : BothStartThrows(t)
  \/ \E t \in Tasks : BothSendResolves(t)
  \/ \E t \in Tasks : BothSendThrows(t)
  \/ \E t \in Tasks : BothOnErrorResolves(t)
  \/ \E t \in Tasks : BothStopResolves(t)
  \/ \E t \in Tasks : BothStopThrows(t)
  \/ LegacyDiagnostics

SpecDuplicate == Init /\ [][NextDuplicate]_vars

\* The manager after a startForFolder for r1 that ran to its end: the predicate
\* agreed, the factory produced a client, the handshake and every send of the
\* replay resolved, and the call chain is over.
RECURSIVE replayed(_, _)
replayed(s, t) ==
  IF s.tasks[t].pc = "send"
  THEN replayed(syncOpenDocuments(s, t, s.tasks[t].doc + 1), t)
  ELSE s

Constructed ==
  [clients |-> EmptyMap, diagnosticCaches |-> EmptyMap, watchers |-> EmptyMap,
   pendingStarts |-> {}, conns |-> <<>>, handles |-> <<>>, caches |-> <<>>,
   folders |-> <<"r1", "r2">>, tasks |-> [t \in Tasks |-> IdleTask],
   calls |-> [r \in Roots |-> NoCalls], syncCalls |-> 0, faults |-> 0]

Activated ==
  LET s1 == startForFolder([Constructed EXCEPT !.tasks[1].op = "start",
                                               !.tasks[1].root = "r1"],
                           1, WorkspaceFolder("r1"))
      s2 == afterShouldEnable(s1, 1, TRUE)
      s3 == afterCreateClient(s2, 1, TRUE)
      s4 == replayed(afterStart(s3, 1), 1)
  IN  [s4 EXCEPT !.tasks[1] = IdleTask]

InitRunning ==
  /\ clients = Activated.clients
  /\ diagnosticCaches = Activated.diagnosticCaches
  /\ watchers = Activated.watchers
  /\ pendingStarts = Activated.pendingStarts
  /\ conns = Activated.conns
  /\ handles = Activated.handles
  /\ caches = Activated.caches
  /\ folders = Activated.folders
  /\ tasks = Activated.tasks
  /\ calls = Activated.calls
  /\ syncCalls = Activated.syncCalls
  /\ faults = Activated.faults
  /\ glob = NoGlob
  /\ legacy = NoLegacy

\* stopForFolder called and the listener notified while r1's client runs
NextOverlap ==
  \/ \E t \in Tasks, r \in Roots : CallStopForFolder(t, r)
  \/ \E t \in Tasks, R \in SUBSET Range(folders) :
       \E A \in SUBSET (Roots \ (Range(folders) \ R)) :
         \E added \in Listings(A) : FoldersChanged(t, Keep(folders, R), added)
  \/ \E t \in Tasks : Resume(t)
  \/ StartSteps
  \/ StopSteps

SpecOverlap == InitRunning /\ [][NextOverlap]_vars

\* startForFolder, startAll and restartAll called while start attempts run,
\* as the Restart action of the error dialog calls them
NextRestart ==
  \/ \E t \in Tasks, r \in Roots : CallStartForFolder(t, r)
  \/ \E t \in Tasks : CallStartAll(t)
  \/ \E t \in Tasks : CallRestartAll(t)
  \/ \E t \in Tasks : Resume(t)
  \/ StartSteps
  \/ StopAllSteps

SpecRestart == Init /\ [][NextRestart]_vars

\* the factory of t's start attempt hands the watchers of the client it is
\* building to registerWatchers
FactoryRegistersWatchers(t) ==
  /\ At(t, "factory")
  /\ syncCalls < MaxSyncCalls
  /\ Becomes([registerWatchers(Cur, WorkspaceFolder(tasks[t].key))
                EXCEPT !.syncCalls = @ + 1])

\* single folders started and stopAll called, the watchers being registered
\* by the factory
NextCreate ==
  \/ \E t \in Tasks, r \in Roots : CallStartForFolder(t, r)
  \/ \E t \in Tasks : CallStopAll(t)
  \/ StartSteps
  \/ StopAllSteps
  \/ \E t \in Tasks : FactoryRegistersWatchers(t)

SpecCreate == Init /\ [][NextCreate]_vars

\* single folders started and stopped, with watchers registered repeatedly
NextWatch ==
  \/ \E t \in Tasks, r \in Roots : CallStartForFolder(t, r)
  \/ \E t \in Tasks, r \in Roots : CallStopForFolder(t, r)
  \/ StartSteps
  \/ StopSteps
  \/ \E r \in Roots : RegisterWatchersAgain(r)

SpecWatch == Init /\ [][NextWatch]_vars

Spec == Init /\ [][Next]_vars

\* -------------------------------------------------------------- properties

StartPcs == {"enable", "factory", "handshake", "send", "onError"}
Over == {"done", "rejected"}

\* the tasks suspended at pc inside a call for folder r
Suspended(r, pc) == {t \in Tasks : tasks[t].key = r /\ tasks[t].pc = pc}

\* the start attempts for r that are past the guard and have not returned
Attempts(r) == {t \in Tasks : tasks[t].key = r /\ tasks[t].pc \in StartPcs}

ConnsOf(r) == {c \in DOMAIN conns : conns[c].root = r}

\* started, and no stop handshake issued
Running(c) == conns[c].started /\ conns[c].stops = 0

\* Nothing has gone against folder r so far: no awaited call of a start for r
\* threw, shouldEnableForFolder never returned false, createClient never
\* resolved to null, and no stop handshake was issued to a client of r.
Smooth(r) ==
  /\ calls[r].error = 0
  /\ calls[r].enable = calls[r].factory + Cardinality(Suspended(r, "enable"))
  /\ calls[r].factory = Cardinality(ConnsOf(r)) + Cardinality(Suspended(r, "factory"))
  /\ \A c \in ConnsOf(r) : conns[c].stops = 0

\* C1: single-flight.  At no instant are two createClient calls for one folder
\* in flight, nor two start attempts.  While nothing has gone against folder r
\* (enablement true, a client produced, nothing thrown, no stop), however many
\* startForFolder(r) calls overlap, createClient has been called at most once
\* for r and at most one client exists for r; once no attempt for r is in
\* flight, createClient was called exactly once and its client is registered.
SingleFlight ==
  \A r \in Roots :
    /\ Cardinality(Suspended(r, "factory")) <= 1
    /\ Cardinality(Attempts(r)) <= 1
    /\ Smooth(r) =>
         /\ calls[r].factory <= 1
         /\ Cardinality(ConnsOf(r)) <= 1
         /\ (calls[r].enable >= 1 /\ Attempts(r) = {}) =>
              /\ calls[r].factory = 1
              /\ r \in DOMAIN clients
              /\ ConnsOf(r) = {clients[r]}

\* two startForFolder("r1") calls overlapped (the second returned on the
\* pending start), both are over, and the one client is registered
SingleFlightWitness ==
  /\ Smooth("r1")
  /\ \A t \in Tasks : tasks[t].op = "start" /\ tasks[t].root = "r1"
                      /\ tasks[t].pc = "done"
  /\ calls["r1"].pending >= 1
  /\ calls["r1"].factory = 1
  /\ "r1" \in DOMAIN clients

\* the fields of the manager, and what exists beside them
managerVars == <<clients, diagnosticCaches, watchers, pendingStarts>>
objectVars == <<conns, handles, caches>>

\* this step is task t calling startForFolder(r) as a top-level call
CallsStart(t, r) ==
  /\ tasks[t].op = "idle"
  /\ tasks'[t].op = "start"
  /\ tasks'[t].root = r

\* C2: idempotent start.  A startForFolder(r) called while r's client is
\* registered and no start for r is pending returns at once: it calls neither
\* shouldEnableForFolder nor createClient, and the table, the caches, the
\* watchers and the guard set are as before.  So while nothing has gone against
\* r, two calls in sequence call createClient once and leave one client.
IdempotentStart ==
  /\ [][\A t \in Tasks, r \in Roots :
          (CallsStart(t, r) /\ r \in DOMAIN clients /\ r \notin pendingStarts) =>
            /\ tasks'[t].pc = "done"
            /\ UNCHANGED managerVars
            /\ UNCHANGED objectVars
            /\ calls'[r].enable = calls[r].enable
            /\ calls'[r].factory = calls[r].factory]_vars
  /\ [](\A r \in Roots :
          (Smooth(r) /\ calls[r].running >= 1) =>
            /\ calls[r].factory = 1
            /\ r \in DOMAIN clients
            /\ ConnsOf(r) = {clients[r]})

\* startForFolder("r1") completed, a second call returned on the registered
\* client, and createClient was called once
IdempotentStartWitness ==
  /\ Smooth("r1")
  /\ \A t \in Tasks : tasks[t].op = "start" /\ tasks[t].root = "r1"
                      /\ tasks[t].pc = "done"
  /\ calls["r1"].running = 1
  /\ calls["r1"].pending = 0
  /\ calls["r1"].factory = 1
  /\ calls["r1"].enable = 1
  /\ "r1" \in DOMAIN clients
  /\ conns[clients["r1"]].started

\* no call chain is between its call and its return
Quiescent == \A t \in Tasks : tasks[t].pc \in {"idle"} \cup Over

\* C3: no duplicate connections.  In every reachable state each folder has at
\* most one client that createClient produced, whose start handshake succeeded
\* and to which no stop handshake has been issued, whether or not the client
\* is still in the table.
NoDuplicateConnections ==
  \A r \in Roots : Cardinality({c \in ConnsOf(r) : Running(c)}) <= 1

\* C4: no orphaned connections.  Whenever no operation of the manager is in
\* flight, every client whose start handshake succeeded and to which no stop
\* handshake has been issued is registered in the table under its folder's key.
NoOrphanedConnections ==
  Quiescent =>
    \A c \in DOMAIN conns :
      Running(c) =>
        /\ conns[c].root \in DOMAIN clients
        /\ clients[conns[c].root] = c

\* this step is run by call chain t
Acts(t) == tasks'[t] # tasks[t]

\* this step is the catch block of t's start attempt, entered from createClient
FactoryThrows(t) == tasks[t].pc = "factory" /\ tasks'[t].pc = "onError"

\* the handles in the watcher list registered under key
WatcherSet(key) == IF key \in DOMAIN watchers THEN Range(watchers[key]) ELSE {}

\* C5: failure isolation and cleanup.  When createClient throws during
\* startForFolder(r): no step of the call, from the call to its return, changes
\* the table, and r is not in the table after the throw; every handle in r's
\* watcher list is disposed and the list is removed; onError is called once
\* for the attempt (at the throw, and not again until the call returns), with
\* a message that names r's folder.
FailureCleanup ==
  [][\A t \in Tasks :
       /\ (Acts(t) /\ tasks'[t].pc \in {"enable", "factory"}) => UNCHANGED clients
       /\ FactoryThrows(t) =>
            LET key == tasks[t].key
            IN  /\ UNCHANGED clients
                /\ key \notin DOMAIN clients'
                /\ key \notin DOMAIN watchers'
                /\ \A h \in WatcherSet(key) : handles'[h].disposed
                /\ \A h \in DOMAIN handles :
                     h \notin WatcherSet(key) => handles'[h] = handles[h]
                /\ calls'[key].error = calls[key].error + 1
                /\ calls'[key].errorName = FolderName(key)
       /\ (Acts(t) /\ tasks[t].pc = "onError") =>
            /\ UNCHANGED clients
            /\ calls'[tasks[t].key].error = calls[tasks[t].key].error
            /\ Attempts(tasks[t].key) = {t}]_vars

\* createClient threw for "r1" after a watcher had been registered for it: the
\* call has returned, onError was called once, the table is empty and the
\* handle is disposed
FailureCleanupWitness ==
  /\ tasks[1].op = "start" /\ tasks[1].root = "r1" /\ tasks[1].pc = "done"
  /\ calls["r1"].factory = 1
  /\ calls["r1"].error = 1
  /\ calls["r1"].errorName = "rails-app"
  /\ conns = <<>>
  /\ clients = EmptyMap
  /\ Len(handles) = 1 /\ handles[1].root = "r1" /\ handles[1].disposed
  /\ "r1" \notin DOMAIN watchers

\* this step is shouldEnableForFolder resolving to false in t's start attempt
Declines(t) ==
  /\ tasks[t].pc = "enable"
  /\ tasks'[t].pc \notin {"enable", "factory", "onError"}

\* this step is t's call of startForFolder passing the guard
PassesGuard(t) == tasks[t].pc # "enable" /\ tasks'[t].pc = "enable"

\* C6: a declined root produces no side effects.  When shouldEnableForFolder
\* returns false for r, startForFolder(r) from its call to its return calls
\* neither createClient nor onError nor onStatusUpdate, registers no client,
\* leaves every cache, every watcher list and every handle as it was, and r is
\* not in pendingStarts once the call has returned.
DeclinedNoSideEffects ==
  [][\A t \in Tasks :
       /\ PassesGuard(t) =>
            LET key == tasks'[t].key
            IN  /\ UNCHANGED <<clients, diagnosticCaches, watchers>>
                /\ UNCHANGED objectVars
                /\ calls' = [calls EXCEPT ![key].enable = @ + 1]
       /\ Declines(t) =>
            LET key == tasks[t].key
            IN  /\ UNCHANGED <<clients, diagnosticCaches, watchers>>
                /\ UNCHANGED objectVars
                /\ UNCHANGED calls
                /\ key \notin DOMAIN clients'
                /\ key \in pendingStarts
                /\ pendingStarts' = pendingStarts \ {key}
                /\ tasks'[t].pc \in {"done", "next"}]_vars

\* startForFolder("r1") was declined and has returned: no createClient, no
\* onError, no onStatusUpdate, no client, the guard released, and the watcher
\* registered for "r1" beforehand still in place and not disposed
DeclinedNoSideEffectsWitness ==
  /\ tasks[1].op = "start" /\ tasks[1].root = "r1" /\ tasks[1].pc = "done"
  /\ tasks[2].op = "idle"
  /\ calls["r1"] = [NoCalls EXCEPT !.enable = 1]
  /\ conns = <<>>
  /\ clients = EmptyMap
  /\ pendingStarts = {}
  /\ "r1" \in DOMAIN watchers
  /\ \A h \in DOMAIN handles : ~handles[h].disposed

\* this step is client.stop() resolving in t's stopForFolder
StopSucceeds(t) ==
  /\ tasks[t].pc = "stop"
  /\ Acts(t)
  /\ tasks'[t].pc # "rejected"

\* this step is t's stopForFolder issuing the stop handshake
IssuesStop(t) == Acts(t) /\ tasks'[t].pc = "stop"

\* the state after getDiagnosticCacheForFolder for root r
AfterCacheRead(r) == getDiagnosticCacheForFolder(Cur, WorkspaceFolder(r))

\* C7: stop clears all per-root state.  stopForFolder(r) issues one stop
\* handshake, to the client registered for r; when the handshake has succeeded
\* and the call returns, r is absent from the table, r's cache is deleted, and
\* every handle in r's watcher list is disposed and the list removed.  Whenever
\* r has no cache, getDiagnosticCacheForFolder(r) returns a new, empty
\* instance, distinct from every instance created before.
StopClearsState ==
  /\ [][\A t \in Tasks :
          /\ IssuesStop(t) =>
               LET key == tasks'[t].key
                   c == tasks'[t].client
               IN  /\ key \in DOMAIN clients /\ clients[key] = c
                   /\ conns' = [conns EXCEPT ![c].stops = @ + 1]
                   /\ UNCHANGED managerVars
          /\ StopSucceeds(t) =>
               LET key == tasks[t].key
               IN  /\ key \notin DOMAIN clients'
                   /\ key \notin DOMAIN diagnosticCaches'
                   /\ key \notin DOMAIN watchers'
                   /\ \A h \in WatcherSet(key) : handles'[h].disposed
                   /\ UNCHANGED conns
                   /\ tasks'[t].pc \in {"done", "next"}]_vars
  /\ [](\A r \in Roots :
          r \notin DOMAIN diagnosticCaches =>
            LET id == AfterCacheRead(r).diagnosticCaches[r]
            IN  /\ id \notin DOMAIN caches
                /\ AfterCacheRead(r).caches[id] = {})

\* "r1" was started, a watcher registered for it, and stopForFolder("r1") has
\* returned: one stop handshake, and no table entry, cache or watcher list
StopClearsStateWitness ==
  /\ tasks[1].op = "start" /\ tasks[1].root = "r1" /\ tasks[1].pc = "done"
  /\ tasks[2].op = "stop" /\ tasks[2].root = "r1" /\ tasks[2].pc = "done"
  /\ Len(conns) = 1 /\ conns[1].started /\ conns[1].stops = 1
  /\ Len(caches) = 1
  /\ "r1" \notin DOMAIN clients
  /\ "r1" \notin DOMAIN diagnosticCaches
  /\ "r1" \notin DOMAIN watchers
  /\ Len(handles) = 1 /\ handles[1].root = "r1" /\ handles[1].disposed

StopAllOps == {"stopAll", "restartAll"}

\* this step is t's stopAll loop visiting an entry and issuing its stop handshake
Visits(t) == Acts(t) /\ tasks'[t].pc = "stopAll"

\* this step is client.stop() resolving inside t's stopAll loop
VisitSucceeds(t) ==
  /\ tasks[t].pc = "stopAll"
  /\ Acts(t)
  /\ tasks'[t].pc # "rejected"

\* this step is the end of t's stopAll: the loop is over and the clearing is done
EndsStopAll(t) ==
  /\ Acts(t)
  /\ tasks[t].pc \in {"idle", "stopAll"}
  /\ \/ tasks'[t].op = "stopAll" /\ tasks'[t].pc = "done"
     \/ tasks'[t].op = "restartAll" /\ tasks'[t].pc = "next"

\* the handles in some watcher list of the registry
Registered == UNION {WatcherSet(k) : k \in DOMAIN watchers}

\* C8: stopAll.  Each visit of stopAll's loop issues one stop handshake, to
\* the client registered under the visited key; when that handshake succeeds
\* the key is removed, and, no client having been created since stopAll was
\* called, the entry removed is the client that was stopped.  When stopAll
\* returns, the table is empty, no cache remains in the registry, the watcher
\* registry is empty and every handle that was in it is disposed; and when no
\* awaited call has thrown and no other stopAll or restartAll has been called,
\* every client has received exactly one stop handshake.
StopAllClears ==
  [][\A t \in Tasks :
       /\ Visits(t) =>
            LET key == tasks'[t].key
                c == tasks'[t].client
            IN  /\ key \in DOMAIN clients' /\ clients'[key] = c
                /\ conns' = [conns EXCEPT ![c].stops = @ + 1]
       /\ VisitSucceeds(t) =>
            LET key == tasks[t].key
            IN  /\ DOMAIN clients' = DOMAIN clients \ {key}
                /\ \A k \in DOMAIN clients' : clients'[k] = clients[k]
                /\ (Len(conns) = tasks[t].seen /\ key \in DOMAIN clients) =>
                     clients[key] = tasks[t].client
       /\ EndsStopAll(t) =>
            /\ clients' = EmptyMap
            /\ diagnosticCaches' = EmptyMap
            /\ watchers' = EmptyMap
            /\ \A h \in Registered : handles'[h].disposed
            /\ \A h \in DOMAIN handles \ Registered : handles'[h] = handles[h]
            /\ (/\ faults = 0
                /\ \A u \in Tasks \ {t} : tasks[u].op \notin StopAllOps) =>
                 \A c \in DOMAIN conns : conns'[c].stops = 1]_vars

\* startAll started both folders, a watcher was registered, and a stopAll
\* called after that has returned: each client was stopped once, and the
\* table, the cache registry and the watcher registry are empty
StopAllClearsWitness ==
  /\ tasks[1].op = "startAll" /\ tasks[1].pc = "done"
  /\ tasks[2].op = "stopAll" /\ tasks[2].pc = "done" /\ tasks[2].seen = 2
  /\ Len(conns) = 2
  /\ \A c \in DOMAIN conns : conns[c].started /\ conns[c].stops = 1
  /\ calls["r1"].status = 1 /\ calls["r2"].status = 1
  /\ clients = EmptyMap
  /\ diagnosticCaches = EmptyMap
  /\ watchers = EmptyMap
  /\ Len(handles) = 1 /\ handles[1].disposed

\* what the manager holds for root r: its table entry, its cache instance, its
\* watcher list and its membership of the guard set
Holds(r) ==
  [client |-> IF r \in DOMAIN clients THEN clients[r] ELSE 0,
   cache |-> IF r \in DOMAIN diagnosticCaches THEN diagnosticCaches[r] ELSE 0,
   watcherList |-> IF r \in DOMAIN watchers THEN watchers[r] ELSE <<>>,
   watched |-> r \in DOMAIN watchers,
   pending |-> r \in pendingStarts]

\* C9: multi-root independence.  No step of a startForFolder(r1) or a
\* stopForFolder(r1), whatever its outcome, changes what the manager holds for
\* another root r2 (table entry, cache instance, watcher list, guard
\* membership), nor r2's clients, the handles of r2's watcher list, or what the
\* collaborators were asked for r2.  Two roots never share a client or a cache
\* instance, and two roots started with nothing gone against them give a table
\* of size 2, two createClient calls and two distinct cache instances.
MultiRootIndependence ==
  /\ [][\A t \in Tasks, r2 \in Roots :
          (Acts(t) /\ tasks'[t].op \in {"start", "stop"} /\ tasks'[t].root # r2) =>
            /\ Holds(r2)' = Holds(r2)
            /\ \A c \in ConnsOf(r2) : conns'[c] = conns[c]
            /\ \A h \in WatcherSet(r2) : handles'[h] = handles[h]
            /\ calls'[r2] = calls[r2]]_vars
  /\ [](\A r1, r2 \in Roots :
          r1 # r2 =>
            /\ (r1 \in DOMAIN clients /\ r2 \in DOMAIN clients) =>
                 clients[r1] # clients[r2]
            /\ (r1 \in DOMAIN diagnosticCaches /\ r2 \in DOMAIN diagnosticCaches) =>
                 diagnosticCaches[r1] # diagnosticCaches[r2]
            /\ (/\ Smooth(r1) /\ calls[r1].enable >= 1 /\ Attempts(r1) = {}
                /\ Smooth(r2) /\ calls[r2].enable >= 1 /\ Attempts(r2) = {}) =>
                 /\ DOMAIN clients = {r1, r2}
                 /\ calls[r1].factory = 1 /\ calls[r2].factory = 1
                 /\ {r1, r2} \subseteq DOMAIN diagnosticCaches)

\* "r1" and then "r2" were started: two clients, two createClient calls, two
\* cache instances
MultiRootIndependenceWitness ==
  /\ tasks[1].op = "start" /\ tasks[1].root = "r1" /\ tasks[1].pc = "done"
  /\ tasks[2].op = "start" /\ tasks[2].root = "r2" /\ tasks[2].pc = "done"
  /\ Cardinality(DOMAIN clients) = 2
  /\ clients["r1"] # clients["r2"]
  /\ calls["r1"].factory + calls["r2"].factory = 2
  /\ diagnosticCaches["r1"] # diagnosticCaches["r2"]
  /\ \A c \in DOMAIN conns : Running(c)

\* change notification t is past its loop over the removed folders: it is
\* inside a startForFolder for an added folder, or it has completed
PastStops(t) ==
  /\ tasks[t].op = "change"
  /\ tasks[t].pc \in StartPcs \cup {"done"}

\* the clients of root r that existed when notification t arrived
Before(t, r) == {c \in ConnsOf(r) : c <= tasks[t].seen}

\* C10: root-change ordering.  The listener awaits stopForFolder for every
\* removed folder before it calls startForFolder for any added folder: while
\* it is inside a start for an added folder, and when it has completed, no
\* removed folder is left to stop and no client that a removed folder had when
\* the notification arrived is in the table, so a removed folder that is not
\* started again is absent from the table.  When the handler has completed,
\* every added folder against which nothing has gone, and for which no start
\* was pending when the handler called startForFolder, is in the table.
RootChangeOrdering ==
  \A t \in Tasks :
    PastStops(t) =>
      /\ tasks[t].todoStop = <<>>
      /\ \A r \in Range(tasks[t].removed) :
           /\ \A c \in Before(t, r) : c \notin Range(clients)
           /\ ConnsOf(r) = Before(t, r) => r \notin DOMAIN clients
      /\ tasks[t].pc = "done" =>
           \A r \in Range(tasks[t].added) :
             (Smooth(r) /\ calls[r].pending = 0 /\ Attempts(r) = {}) =>
               r \in DOMAIN clients

\* "r1" was running when a notification removed it and added "r2"; the handler
\* has completed: "r1"'s client was stopped and is out of the table, "r2"'s
\* client was created after that and is registered
RootChangeOrderingWitness ==
  /\ tasks[1].op = "start" /\ tasks[1].root = "r1" /\ tasks[1].pc = "done"
  /\ tasks[2].op = "change" /\ tasks[2].pc = "done"
  /\ tasks[2].removed = <<"r1">> /\ tasks[2].added = <<"r2">>
  /\ tasks[2].seen = 1
  /\ conns[1].root = "r1" /\ conns[1].started /\ conns[1].stops = 1
  /\ DOMAIN clients = {"r2"}
  /\ clients["r2"] = 2 /\ Running(2)

\* nothing was called after call chain t
Latest(t) == \A u \in Tasks : u > t => tasks[u].op = "idle"

\* C11: removing a root stops its server.  Once a notification that removes
\* root r and does not add it again has been handled and every operation in
\* flight has finished, nothing having been called since and no awaited call
\* having thrown, no client is registered for r and no client of r is started
\* without a stop handshake, whatever was in progress for r when the
\* notification arrived.
RemovalStopsServer ==
  \A t \in Tasks :
    (/\ tasks[t].op = "change" /\ tasks[t].pc = "done"
     /\ Latest(t) /\ Quiescent /\ faults = 0) =>
      \A r \in Range(tasks[t].removed) \ Range(tasks[t].added) :
        /\ r \notin DOMAIN clients
        /\ \A c \in ConnsOf(r) : ~Running(c)

\* ------------------------------------------------------------ fair scheduling

\* the call awaited by call chain t returns, resolving or throwing, or the
\* loop that awaited a call goes on
Continues(t) ==
  \/ \E enabled \in BOOLEAN : ShouldEnableResolves(t, enabled)
  \/ ShouldEnableThrows(t)
  \/ \E produced \in BOOLEAN : CreateClientResolves(t, produced)
  \/ CreateClientThrows(t)
  \/ StartResolves(t)
  \/ StartThrows(t)
  \/ SendResolves(t)
  \/ SendThrows(t)
  \/ OnErrorResolves(t)
  \/ OnErrorThrows(t)
  \/ StopResolves(t)
  \/ StopThrows(t)
  \/ Resume(t)

\* startForFolder, stopForFolder and startAll
NextLive ==
  \/ \E t \in Tasks, r \in Roots : CallStartForFolder(t, r)
  \/ \E t \in Tasks, r \in Roots : CallStopForFolder(t, r)
  \/ \E t \in Tasks : CallStartAll(t)
  \/ \E t \in Tasks : Continues(t)

\* every awaited call returns in the end and the event loop runs every
\* continuation that is ready
SpecLive == Init /\ [][NextLive]_vars /\ \A t \in Tasks : WF_vars(Continues(t))

\* startForFolder was called for root r
Invoked(r) == calls[r].enable + calls[r].running + calls[r].pending >= 1

\* C12: liveness.  Under fair scheduling, once startForFolder(r) has been
\* called, directly or by startAll, then eventually r has a registered client
\* and is out of pendingStarts, unless something goes against r: the
\* enablement predicate returns false, createClient yields no client, an
\* awaited call of the start throws, or a stop handshake is issued for r.
EventuallyConnected ==
  \A r \in Roots :
    Invoked(r) ~> (\/ r \in DOMAIN clients /\ r \notin pendingStarts
                   \/ ~Smooth(r))

\* startAll has started both folders: each is registered and out of
\* pendingStarts, and nothing went against either
EventuallyConnectedWitness ==
  /\ tasks[1].op = "startAll" /\ tasks[1].pc = "done"
  /\ \A r \in Roots :
       /\ Invoked(r) /\ Smooth(r)
       /\ r \in DOMAIN clients /\ Running(clients[r])
       /\ r \notin pendingStarts

\* how many times startForFolder was called for root r
InvocationsIn(cs, r) == cs[r].enable + cs[r].running + cs[r].pending
Invocations(r) == InvocationsIn(calls, r)

\* this step is an awaited call of t's start attempt throwing inside the try
ThrowsInTry(t) ==
  \/ ShouldEnableThrows(t)
  \/ CreateClientThrows(t)
  \/ StartThrows(t)
  \/ SendThrows(t)

\* C13: startAll never aborts on one root's failure.  startAll calls
\* startForFolder once for each folder of its list, in order, and returns only
\* when none is left.  When the enablement predicate, createClient, the
\* handshake or a replay send throws for a folder, the failure is reported
\* through onError for that folder and, onError having returned, the loop goes
\* on with the folders left; startAll rejects on no step other than onError
\* itself throwing.
StartAllNeverAborts ==
  [][\A t \in Tasks :
       (Acts(t) /\ tasks'[t].op = "startAll") =>
         LET me == tasks[t]
             list == IF me.op = "idle" THEN folders ELSE me.todoStart
         IN  /\ (me.pc \in {"idle", "next"} /\ list # <<>>) =>
                  /\ InvocationsIn(calls', Head(list)) = Invocations(Head(list)) + 1
                  /\ \A r \in Roots \ {Head(list)} :
                       InvocationsIn(calls', r) = Invocations(r)
                  /\ tasks'[t].todoStart = Tail(list)
                  /\ tasks'[t].pc \in StartPcs \cup {"next"}
             /\ (me.pc \in {"idle", "next"}) =>
                  (tasks'[t].pc = "done" <=> list = <<>>)
             /\ (me.pc \in StartPcs /\ tasks'[t].pc # "rejected") =>
                  /\ tasks'[t].todoStart = me.todoStart
                  /\ tasks'[t].pc # "done"
             /\ ThrowsInTry(t) =>
                  /\ tasks'[t].pc = "onError"
                  /\ calls'[me.key].error = calls[me.key].error + 1
                  /\ calls'[me.key].errorName = FolderName(me.key)
             /\ OnErrorResolves(t) => tasks'[t].pc = "next"
             /\ tasks'[t].pc = "rejected" => OnErrorThrows(t)]_vars

\* the start of "r1" failed inside startAll and was reported through onError;
\* startAll went on, started "r2" and returned
StartAllNeverAbortsWitness ==
  /\ tasks[1].op = "startAll" /\ tasks[1].pc = "done"
  /\ tasks[1].todoStart = <<>>
  /\ faults = 1
  /\ calls["r1"].error = 1
  /\ "r1" \notin DOMAIN clients
  /\ Invocations("r2") = 1
  /\ "r2" \in DOMAIN clients /\ Running(clients["r2"])

\* this step is call chain t calling notifyDocumentOpenIfNeeded(textDocuments[i])
CallsNotify(t, i) ==
  /\ tasks[t].op = "idle"
  /\ tasks'[t].op = "notify"
  /\ tasks'[t].document = i

\* textDocuments[i] is to be announced: its language is supported, its root
\* has a registered client, and it is not a key of the root's cache
ToAnnounce(i) ==
  LET document == textDocuments[i]
      r == document.folder
  IN  /\ document.languageId \in {"ruby", "gemfile"}
      /\ r # None
      /\ r \in DOMAIN clients
      /\ r \in DOMAIN diagnosticCaches =>
           document.uri \notin caches[diagnosticCaches[r]]

\* C14: lazy open-notification.  notifyDocumentOpenIfNeeded(D) sends nothing
\* when D's language is unsupported, D belongs to no root, or D's root has no
\* registered client, and nothing when D is a key of the root's cache;
\* otherwise it sends one open notification for D to the root's registered
\* client, and no other.  It adds no key to any cache: every existing instance
\* keeps its keys and an instance it creates is empty.
LazyOpenNotification ==
  [][\A t \in Tasks :
       /\ \A i \in DOMAIN textDocuments :
            CallsNotify(t, i) =>
              LET document == textDocuments[i]
              IN  /\ IF ToAnnounce(i)
                     THEN /\ conns' = [conns EXCEPT
                                         ![clients[document.folder]].opens =
                                           Append(@, document.uri)]
                          /\ tasks'[t].pc = "notify"
                     ELSE /\ UNCHANGED conns
                          /\ tasks'[t].pc = "done"
                  /\ \A id \in DOMAIN caches : caches'[id] = caches[id]
                  /\ \A id \in DOMAIN caches' \ DOMAIN caches : caches'[id] = {}
                  /\ UNCHANGED <<clients, watchers, pendingStarts, handles>>
       /\ (tasks[t].pc = "notify" /\ Acts(t)) =>
            /\ UNCHANGED managerVars
            /\ UNCHANGED objectVars]_vars

\* "r1" was started and its client was told of d1 and d5 in the replay; d1 then became
\* a key of the cache the registry holds for "r1", and
\* notifyDocumentOpenIfNeeded(d1) returned without sending
LazyOpenNotificationWitness ==
  /\ tasks[1].op = "start" /\ tasks[1].root = "r1" /\ tasks[1].pc = "done"
  /\ tasks[2].op = "notify" /\ tasks[2].document = 1 /\ tasks[2].pc = "done"
  /\ "r1" \in DOMAIN clients
  /\ "d1" \in caches[diagnosticCaches["r1"]]
  /\ conns[clients["r1"]].opens = <<"d1", "d5">>

\* this step replaces or removes the cache instance the registry holds for r
CacheReplaced(r) ==
  /\ r \in DOMAIN diagnosticCaches
  /\ r \in DOMAIN diagnosticCaches' => diagnosticCaches'[r] # diagnosticCaches[r]

\* this step completes a successful start handshake, a stopForFolder or a
\* stopAll that concerns root r
StartOrStopCompletes(r) ==
  \E t \in Tasks :
    /\ Acts(t)
    /\ \/ tasks[t].pc = "handshake" /\ tasks[t].key = r /\ tasks'[t].pc # "onError"
       \/ tasks[t].pc = "stop" /\ tasks[t].key = r /\ tasks'[t].pc # "rejected"
       \/ EndsStopAll(t)

\* C15: getDiagnosticCacheForFolder(r) returns the instance the registry holds
\* for r and changes nothing, or, when the registry holds none, creates an
\* empty instance, stores it and returns it; a second call right after the
\* first returns the same instance.  The instance held for r is replaced or
\* removed only by a step that completes a successful start handshake for r,
\* a stopForFolder(r) or a stopAll, so two calls with none of these between
\* them return the same instance.
CacheReadStable ==
  /\ [](\A r \in Roots :
          LET s1 == AfterCacheRead(r)
          IN  /\ r \in DOMAIN s1.diagnosticCaches
              /\ r \in DOMAIN diagnosticCaches => s1 = Cur
              /\ r \notin DOMAIN diagnosticCaches =>
                   /\ s1.diagnosticCaches[r] \notin DOMAIN caches
                   /\ s1.caches[s1.diagnosticCaches[r]] = {}
                   /\ \A k \in DOMAIN diagnosticCaches :
                        s1.diagnosticCaches[k] = diagnosticCaches[k]
                   /\ \A id \in DOMAIN caches : s1.caches[id] = caches[id]
              /\ getDiagnosticCacheForFolder(s1, WorkspaceFolder(r)) = s1)
  /\ [][\A r \in Roots : CacheReplaced(r) => StartOrStopCompletes(r)]_vars

\* getDiagnosticCacheForFolder("r1") was called before any start: the registry
\* holds the empty instance it created, and a further call returns that one
CacheReadStableWitness ==
  /\ syncCalls = 1
  /\ conns = <<>>
  /\ caches = <<{}>>
  /\ DOMAIN diagnosticCaches = {"r1"}
  /\ diagnosticCaches["r1"] = 1
  /\ AfterCacheRead("r1").diagnosticCaches["r1"] = 1

\* C16: guard invariant.  In every reachable state a key is in pendingStarts
\* if and only if exactly one startForFolder call for that key has passed its
\* two early returns and has not returned yet; there are never two such calls
\* for one key.
GuardInvariant ==
  \A r \in Roots :
    /\ Cardinality(Attempts(r)) <= 1
    /\ r \in pendingStarts <=> Cardinality(Attempts(r)) = 1

\* a start attempt for "r1" holds the guard while it awaits createClient, and
\* a second startForFolder("r1") has returned on the guard
GuardInvariantWitness ==
  /\ tasks[1].op = "start" /\ tasks[1].key = "r1" /\ tasks[1].pc = "factory"
  /\ tasks[2].op = "start" /\ tasks[2].root = "r1" /\ tasks[2].pc = "done"
  /\ calls["r1"].pending = 1
  /\ pendingStarts = {"r1"}

\* --------------------------------------------------------- normalizePathForGlob

\* a path is a sequence of characters: the two separators and another one
PathChars == {"\\", "/", "a"}
Paths == UNION {[1..n -> PathChars] : n \in 0..MaxLen}

\* a replace that is not global: the first backslash only
normalizePathForGlob_First(fsPath) ==
  LET backslashes == {i \in 1..Len(fsPath) : fsPath[i] = "\\"}
  IN  [i \in 1..Len(fsPath) |->
         IF i \in backslashes /\ \A j \in backslashes : i <= j
         THEN "/" ELSE fsPath[i]]

\* fsPath.replace(/\\/g, '/'): the global replace goes through the string from
\* its start and puts a slash for every backslash it matches
normalizePathForGlob(fsPath) ==
  [i \in 1..Len(fsPath) |-> IF fsPath[i] = "\\" THEN "/" ELSE fsPath[i]]

InitPath ==
  /\ clients = EmptyMap
  /\ diagnosticCaches = EmptyMap
  /\ watchers = EmptyMap
  /\ pendingStarts = {}
  /\ conns = <<>>
  /\ handles = <<>>
  /\ caches = <<>>
  /\ folders = <<"r1", "r2">>
  /\ tasks = [t \in Tasks |-> IdleTask]
  /\ calls = [r \in Roots |-> NoCalls]
  /\ syncCalls = 0
  /\ faults = 0
  /\ glob \in {[NoGlob EXCEPT !.fsPath = p] : p \in Paths}
  /\ legacy = NoLegacy

NormalizePathForGlob ==
  /\ ~glob.done
  /\ glob' = [glob EXCEPT !.result = normalizePathForGlob(glob.fsPath),
                          !.done = TRUE]
  /\ UNCHANGED <<clients, diagnosticCaches, watchers, pendingStarts, conns,
                 handles, caches, folders, tasks, calls, syncCalls, faults,
                 legacy>>

SpecPath == InitPath /\ [][NormalizePathForGlob]_vars

\* C17: path normalization.  normalizePathForGlob puts a forward slash for
\* every backslash of its input and changes no other character: the result
\* has the input's length and no backslash, an input without a backslash is
\* returned as it is, and normalizing the result again gives the result.
PathNormalization ==
  glob.done =>
    /\ Len(glob.result) = Len(glob.fsPath)
    /\ \A i \in 1..Len(glob.fsPath) :
         /\ glob.fsPath[i] = "\\" => glob.result[i] = "/"
         /\ glob.fsPath[i] # "\\" => glob.result[i] = glob.fsPath[i]
    /\ \A i \in 1..Len(glob.result) : glob.result[i] # "\\"
    /\ (\A i \in 1..Len(glob.fsPath) : glob.fsPath[i] # "\\") =>
         glob.result = glob.fsPath
    /\ normalizePathForGlob(glob.result) = glob.result

\* a path of mixed separators has been normalized
PathNormalizationWitness ==
  /\ glob.done
  /\ glob.fsPath = <<"a", "\\", "a", "/">>
  /\ glob.result = <<"a", "/", "a", "/">>

\* this step concludes t's start attempt, with whatever outcome
Concludes(t) ==
  /\ tasks[t].pc \in StartPcs
  /\ tasks'[t].pc \notin StartPcs

\* C18: guard release.  The step that concludes a start attempt removes the
\* attempt's key from pendingStarts, whatever the outcome: declined, no
\* client produced, success, a throw of the enablement predicate, of
\* createClient, of the handshake or of a replay send followed by onError
\* returning, and onError itself throwing.  With every awaited call returning
\* in the end, a key in pendingStarts eventually leaves it.
GuardRelease ==
  /\ [][\A t \in Tasks :
          Concludes(t) =>
            /\ tasks[t].key \in pendingStarts
            /\ pendingStarts' = pendingStarts \ {tasks[t].key}]_vars
  /\ \A r \in Roots : (r \in pendingStarts) ~> (r \notin pendingStarts)

\* createClient threw for "r1" and then onError threw: the call has rejected
\* and "r1" is out of pendingStarts
GuardReleaseWitness ==
  /\ tasks[1].op = "start" /\ tasks[1].root = "r1" /\ tasks[1].pc = "rejected"
  /\ calls["r1"].factory = 1 /\ calls["r1"].error = 1
  /\ conns = <<>>
  /\ pendingStarts = {}

\* the start handshake of the client in the table under r is outstanding
InHandshake(r) ==
  \E t \in Tasks :
    /\ tasks[t].pc = "handshake" /\ tasks[t].key = r
    /\ r \in DOMAIN clients
    /\ clients[r] = tasks[t].client

\* this step is t's start attempt issuing the start handshake of its client
IssuesHandshake(t) == tasks[t].pc # "handshake" /\ tasks'[t].pc = "handshake"

\* this step is a stop handshake resolving in a stopForFolder or a stopAll
\* that holds key r
StopIntervenes(r) ==
  \E u \in Tasks :
    /\ tasks[u].key = r
    /\ StopSucceeds(u) \/ VisitSucceeds(u)

\* C19: register before handshake.  The step that issues the start handshake
\* of a client has put the client in the table under its key; while the
\* handshake is outstanding the only step that takes the client out of the
\* table is a stop for the key completing; and a startForFolder for the key
\* called while the handshake is outstanding and the client is in the table
\* returns at once: it calls neither the enablement predicate nor createClient
\* and changes nothing of the manager.
RegisterBeforeHandshake ==
  /\ [][\A t \in Tasks :
          IssuesHandshake(t) =>
            /\ tasks'[t].key \in DOMAIN clients'
            /\ clients'[tasks'[t].key] = tasks'[t].client
            /\ ~conns'[tasks'[t].client].started]_vars
  /\ [][\A t \in Tasks :
          (/\ InHandshake(tasks[t].key)
           /\ tasks[t].pc = "handshake"
           /\ tasks'[t].pc = "handshake"
           /\ ~InHandshake(tasks[t].key)') => StopIntervenes(tasks[t].key)]_vars
  /\ [][\A t \in Tasks, r \in Roots :
          (CallsStart(t, r) /\ InHandshake(r)) =>
            /\ tasks'[t].pc = "done"
            /\ calls'[r].enable = calls[r].enable
            /\ calls'[r].factory = calls[r].factory
            /\ UNCHANGED managerVars
            /\ UNCHANGED objectVars]_vars

\* while the handshake of "r1"'s client is outstanding, its client is in the
\* table, and a second startForFolder("r1") has returned on it
RegisterBeforeHandshakeWitness ==
  /\ tasks[1].op = "start" /\ tasks[1].key = "r1" /\ tasks[1].pc = "handshake"
  /\ tasks[2].op = "start" /\ tasks[2].root = "r1" /\ tasks[2].pc = "done"
  /\ clients = [k \in {"r1"} |-> 1]
  /\ ~conns[1].started /\ conns[1].stops = 0
  /\ calls["r1"].running = 1
  /\ calls["r1"].enable = 1 /\ calls["r1"].factory = 1

\* the uris of the visible documents of a supported language whose workspace
\* folder is r, in the order of workspace.textDocuments
Replay(r) ==
  LET mine(d) == d.languageId \in {"ruby", "gemfile"} /\ d.folder = r
      docs == SelectSeq(textDocuments, mine)
  IN  [i \in 1..Len(docs) |-> docs[i].uri]

\* this step is the start handshake of t's client succeeding
HandshakeSucceeds(t) ==
  /\ tasks[t].pc = "handshake"
  /\ tasks'[t].pc \notin {"handshake", "onError"}

\* this step is a send of t's replay succeeding
SendSucceeds(t) ==
  /\ tasks[t].pc = "send"
  /\ Acts(t)
  /\ tasks'[t].pc # "onError"

\* C20: successful start sequence.  The step on which the start handshake of
\* r's client succeeds replaces r's cache by a new empty instance and sends the
\* first document of r's replay; each send that succeeds is followed by the
\* send of the next one; onStatusUpdate is called once, on the step on which
\* the last send succeeds (or the handshake, when r has no document), when the
\* client has been sent exactly the supported documents of r, each once and in
\* order.  No other step of a start calls onStatusUpdate: not a declined one,
\* not one whose createClient resolves to null, not one that throws.
StartSequence ==
  /\ [][\A t \in Tasks :
          HandshakeSucceeds(t) =>
            /\ conns[tasks[t].client].opens = <<>>
            /\ caches' = Append(caches, {})
            /\ diagnosticCaches' =
                 MapSet(diagnosticCaches, tasks[t].key, Len(caches) + 1)]_vars
  /\ [][\A t \in Tasks :
          (HandshakeSucceeds(t) \/ SendSucceeds(t)) =>
            LET r == tasks[t].key
                c == tasks[t].client
                sent == conns[c].opens
            IN  /\ sent = SubSeq(Replay(r), 1, Len(sent))
                /\ IF sent = Replay(r)
                   THEN /\ conns'[c].opens = sent
                        /\ calls'[r].status = calls[r].status + 1
                        /\ tasks'[t].pc \notin StartPcs
                   ELSE /\ conns'[c].opens = SubSeq(Replay(r), 1, Len(sent) + 1)
                        /\ calls'[r].status = calls[r].status
                        /\ tasks'[t].pc = "send"]_vars
  /\ [][\A r \in Roots :
          calls'[r].status # calls[r].status =>
            \E t \in Tasks :
              /\ tasks[t].key = r
              /\ HandshakeSucceeds(t) \/ SendSucceeds(t)
              /\ conns'[tasks[t].client].opens = Replay(r)]_vars
  /\ [][\A c \in DOMAIN conns :
          conns'[c].opens # conns[c].opens =>
            \E t \in Tasks :
              /\ tasks[t].client = c
              /\ HandshakeSucceeds(t) \/ SendSucceeds(t)]_vars

\* a start of "r1" has returned after a handshake that succeeded: its client
\* was sent the documents of "r1" and no other, the status was refreshed once,
\* and the cache of "r1" is the new empty instance
StartSequenceWitness ==
  /\ tasks[1].op = "start" /\ tasks[1].root = "r1" /\ tasks[1].pc = "done"
  /\ tasks[2].op = "idle"
  /\ clients = [k \in {"r1"} |-> 1]
  /\ conns[1].started
  /\ conns[1].opens = Replay("r1")
  /\ Replay("r1") # <<>>
  /\ calls["r1"].status = 1 /\ calls["r2"].status = 0
  /\ diagnosticCaches = [k \in {"r1"} |-> Len(caches)]
  /\ caches[Len(caches)] = {}

\* the registry holds for key the cache instance that afterStart created for
\* the client in the table under key
HoldsStartCache(key) ==
  /\ key \in DOMAIN diagnosticCaches
  /\ diagnosticCaches[key] = conns[clients[key]].cache

\* C21 as stated: whenever a client is registered for a key, the registry holds
\* for that key the cache that was created empty when that client started.
FreshCacheWhenRegistered == \A key \in DOMAIN clients : HoldsStartCache(key)

\* C21, amended: whenever a client whose start handshake has succeeded is
\* registered for a key, the registry holds for that key the cache instance
\* afterStart created for that client, which was empty when created: never an
\* instance a reader created earlier or one of an earlier client.
FreshCacheWhenStarted ==
  /\ [](\A key \in DOMAIN clients :
          conns[clients[key]].started => HoldsStartCache(key))
  /\ [][\A t \in Tasks :
          (tasks[t].pc = "handshake" /\ tasks'[t].pc \notin {"handshake", "onError"}) =>
            LET c == tasks[t].client
            IN  /\ conns'[c].cache = Len(caches) + 1
                /\ caches' = Append(caches, {})]_vars

\* a reader created a cache for "r1" first; then "r1" was started, and the
\* registry holds the second instance, the one created at the start
FreshCacheWhenStartedWitness ==
  /\ tasks[1].op = "start" /\ tasks[1].root = "r1" /\ tasks[1].pc = "done"
  /\ clients = [k \in {"r1"} |-> 1]
  /\ conns[1].started /\ conns[1].stops = 0
  /\ Len(caches) = 2
  /\ conns[1].cache = 2
  /\ diagnosticCaches = [k \in {"r1"} |-> 2]

\* this step disposes handle h
Disposes(h) == ~handles[h].disposed /\ handles'[h].disposed

\* this step takes key's client out of the table
Unregisters(key) == key \in DOMAIN clients /\ key \notin DOMAIN clients'

\* this step enters the catch block of a start attempt for key
CleansUpFailedStart(key) ==
  \E t \in Tasks : tasks[t].key = key /\ Acts(t) /\ tasks'[t].pc = "onError"

\* C22: watcher lifetime.  A handle is disposed only on a step that removes its
\* key's client from the table or that cleans up a failed start of its key, and
\* no handle is lost: a handle that is not disposed while its key has neither
\* a client nor a start in flight is still in the key's watcher list (where the
\* next removal disposes it), also when a later registerWatchers for the key
\* has replaced the list it was in.
WatcherLifetime ==
  /\ [][\A h \in DOMAIN handles :
          Disposes(h) =>
            \/ Unregisters(handles[h].root)
            \/ CleansUpFailedStart(handles[h].root)]_vars
  /\ [](\A h \in DOMAIN handles :
          (/\ ~handles[h].disposed
           /\ handles[h].root \notin DOMAIN clients
           /\ Attempts(handles[h].root) = {}) => h \in WatcherSet(handles[h].root))

\* this step is client.stop() rejecting in t's stopForFolder
StopFails(t) == tasks[t].pc = "stop" /\ tasks'[t].pc = "rejected"

\* C23: StopFailure in stopForFolder.  When the stop handshake throws,
\* stopForFolder rejects and neither the step that issued the handshake nor the
\* step on which it throws changes the table, the cache registry, the watcher
\* lists or any handle: the key's entry still refers to the client that was
\* sent the stop, its cache is still held and no watcher is disposed.
StopFailureKeepsState ==
  /\ [][\A t \in Tasks :
          (tasks'[t].op = "stop" /\ (IssuesStop(t) \/ StopFails(t))) =>
            /\ UNCHANGED managerVars
            /\ handles' = handles
            /\ caches' = caches]_vars
  /\ [][\A t \in Tasks :
          (StopFails(t) /\ tasks[t].key \in DOMAIN clients
             /\ clients[tasks[t].key] = tasks[t].client) =>
            /\ clients'[tasks[t].key] = tasks[t].client
            /\ conns'[tasks[t].client].stops >= 1]_vars

\* "r1" was started with a watcher registered; stopForFolder("r1") was rejected
\* by the stop handshake, and the entry, the cache and the undisposed watcher
\* are all still there
StopFailureKeepsStateWitness ==
  /\ tasks[1].op = "start" /\ tasks[1].root = "r1" /\ tasks[1].pc = "done"
  /\ tasks[2].op = "stop" /\ tasks[2].root = "r1" /\ tasks[2].pc = "rejected"
  /\ clients = [k \in {"r1"} |-> 1]
  /\ conns[1].stops = 1
  /\ "r1" \in DOMAIN diagnosticCaches
  /\ watchers = [k \in {"r1"} |-> <<1>>]
  /\ ~handles[1].disposed

\* this step is client.stop() rejecting inside t's stopAll loop
VisitFails(t) ==
  /\ tasks[t].pc = "stopAll"
  /\ Acts(t)
  /\ faults' # faults

\* no stopAll or restartAll other than t's has been called
OnlyPass(t) == \A u \in Tasks \ {t} : tasks[u].op \notin StopAllOps

\* C24: StopFailure in stopAll.  A stop handshake that throws inside stopAll's
\* loop ends the pass there: stopAll, and a restartAll awaiting it, rejects and
\* does nothing more (it starts nothing).  The step changes nothing: the failing
\* client and the clients after it stay registered, and, this being the only
\* pass, the later ones have received no stop handshake, while every client
\* stopped before is out of the table.  No step of the pass before its end
\* touches the cache registry, the watcher lists or a handle, so after the
\* failure no cache is cleared and no watcher disposed, those of the removed
\* clients included.
StopAllFailureAborts ==
  /\ [][\A t \in Tasks :
          VisitFails(t) =>
            /\ tasks'[t].pc = "rejected"
            /\ UNCHANGED managerVars
            /\ UNCHANGED objectVars
            /\ calls' = calls
            /\ clients[tasks[t].key] = tasks[t].client
            /\ OnlyPass(t) =>
                 \A c \in DOMAIN conns :
                   /\ (c \in Range(clients) /\ c > tasks[t].client) =>
                        conns[c].stops = 0
                   /\ (c < tasks[t].client /\ conns[c].stops >= 1) =>
                        c \notin Range(clients)]_vars
  /\ [][\A t \in Tasks :
          (Visits(t) \/ VisitFails(t)) =>
            /\ diagnosticCaches' = diagnosticCaches
            /\ watchers' = watchers
            /\ handles' = handles
            /\ caches' = caches]_vars
  /\ [][\A t \in Tasks :
          tasks[t].pc = "rejected" => tasks'[t] = tasks[t]]_vars

\* startAll started both folders and a watcher was registered for "r1"; stopAll
\* stopped and removed the client of "r1", and the stop of "r2"'s client threw:
\* stopAll is rejected, "r2" is still registered, both caches are still held
\* and the watcher of "r1" is not disposed
StopAllFailureAbortsWitness ==
  /\ tasks[1].op = "startAll" /\ tasks[1].pc = "done"
  /\ tasks[2].op = "stopAll" /\ tasks[2].pc = "rejected"
  /\ clients = [k \in {"r2"} |-> 2]
  /\ conns[1].stops = 1 /\ conns[2].stops = 1
  /\ DOMAIN diagnosticCaches = {"r1", "r2"}
  /\ watchers = [k \in {"r1"} |-> <<1>>]
  /\ ~handles[1].disposed

\* C25: stopAll works on a snapshot.  Every client a stopAll pass visits (sends
\* a stop handshake and then unregisters) was in the table when stopAll was
\* called: a client that is created and registered while the pass is suspended
\* in a stop handshake is not visited by it (stated for the behaviours in
\* which no awaited call has thrown).
StopAllSnapshot ==
  [][\A t \in Tasks :
       (Visits(t) /\ faults' = 0) => tasks'[t].client <= tasks'[t].seen]_vars

\* the roots notification t lists both as removed and as added
ReAdded(t) == Range(tasks[t].removed) \cap Range(tasks[t].added)

\* C26: remove and re-add in one batch.  Once the handler of a notification
\* that lists root r as removed and as added has completed, nothing having been
\* called since and no awaited call having thrown, the client in the table
\* under r, if there is one, did not exist when the notification arrived and is
\* not the client of a start attempt of another call chain, which was in
\* flight when the notification arrived.
ReAddRecreates ==
  \A t \in Tasks :
    (tasks[t].op = "change" /\ tasks[t].pc = "done" /\ Latest(t) /\ faults = 0) =>
      \A r \in ReAdded(t) :
        r \in DOMAIN clients =>
          /\ clients[r] > tasks[t].seen
          /\ \A u \in Tasks \ {t} :
               ~(tasks[u].pc \in StartPcs /\ tasks[u].client = clients[r])

\* C27: absence from the cache means never told.  Across the replay of
\* afterStart and every notifyDocumentOpenIfNeeded, one client is sent at most
\* one open notification for a document (stated for the behaviours in which no
\* awaited call has thrown).
OpenedAtMostOnce ==
  faults = 0 =>
    \A c \in DOMAIN conns :
      \A i, j \in DOMAIN conns[c].opens :
        conns[c].opens[i] = conns[c].opens[j] => i = j

\* ---------------------------------------------------------------- C28

\* client c of extension.ts reports diagnostics for document uri in this step
Pushes(c, uri) ==
  /\ syncCalls' = syncCalls + 1
  /\ legacy' = legacyHandleDiagnostics(legacy, c, uri)

\* client c of extension.ts has started successfully and is the registered
\* client of its root
StartedFor(c) ==
  /\ legacy.conns[c].started
  /\ legacy.conns[c].root \in DOMAIN legacy.languageClients
  /\ legacy.languageClients[legacy.conns[c].root] = c

\* C28: after a client has started successfully for its root, every
\* diagnostics push it reports for a document is stored in the cache instance
\* the registry holds for that root at that moment, so that a registry read
\* for the document finds it, and the status is refreshed by the push.
DiagnosticsLandInRegistry ==
  [][\A c \in DOMAIN legacy.conns, i \in DOMAIN textDocuments :
       (StartedFor(c) /\ Pushes(c, textDocuments[i].uri)) =>
         LET key == legacy.conns[c].root
         IN  /\ key \in DOMAIN legacy'.diagnosticCaches
             /\ textDocuments[i].uri \in
                  legacy'.caches[legacy'.diagnosticCaches[key]]
             /\ legacy'.status = legacy.status + 1]_vars

\* ---------------------------------------------------------------- C29

\* every call chain has returned or rejected, in the manager and in extension.ts
BothOver ==
  \A t \in Tasks : /\ tasks[t].pc \in Over \cup {"idle"}
                   /\ legacy.tasks[t].pc \in Over \cup {"idle"}

\* C29: the free-standing functions of extension.ts duplicate the manager.
\* Driven by the same triggers and the same outcomes of the awaited calls
\* (none of which throws), overlapping start triggers for one root included,
\* once every call chain is over both have clients registered for the same
\* roots, have called the factory the same number of times for every root,
\* and hold a cache for the same roots.
DuplicateMechanism ==
  (BothOver /\ faults = 0) =>
    /\ DOMAIN clients = DOMAIN legacy.languageClients
    /\ \A r \in Roots : calls[r].factory = legacy.factory[r]
    /\ DOMAIN diagnosticCaches = DOMAIN legacy.diagnosticCaches

\* ---------------------------------------------------------------- C30

\* the entry of map m under key, if there is one
EntryOf(m, key) == IF key \in DOMAIN m THEN <<m[key]>> ELSE <<>>

\* another client than the one t's stopForFolder sent the stop to is
\* registered under t's key
Superseded(t) ==
  /\ tasks[t].key \in DOMAIN clients
  /\ clients[tasks[t].key] # tasks[t].client

\* C30: stopForFolder unregisters only the client it stopped.  When the stop
\* handshake of a stopForFolder resolves while another client is registered
\* under the key (the client it stopped was unregistered by an overlapping
\* stopForFolder and a startForFolder registered a new one since), the step
\* leaves the new client's table entry, its cache and its watcher list alone
\* and disposes no watcher.
StopSparesSuccessor ==
  [][\A t \in Tasks :
       (StopSucceeds(t) /\ Superseded(t)) =>
         LET key == tasks[t].key
         IN  /\ EntryOf(clients', key) = EntryOf(clients, key)
             /\ EntryOf(diagnosticCaches', key) = EntryOf(diagnosticCaches, key)
             /\ EntryOf(watchers', key) = EntryOf(watchers, key)
             /\ handles' = handles]_vars

\* ---------------------------------------------------------------- C31

\* the tasks whose start attempt for r failed and whose onError has not returned
Reporting(r) == {t \in Tasks : tasks[t].pc = "onError" /\ tasks[t].key = r}

\* C31: the guard is held while the error callback runs.  From the step on
\* which a start attempt for r fails until its awaited onError has returned,
\* r is in pendingStarts, and no step taken in between (a startForFolder for
\* r, a startAll or a restartAll, called as the callback's Restart action
\* calls them, or any of their later steps) calls the enablement predicate or
\* the factory for r.
GuardHeldInCallback ==
  /\ [](\A r \in Roots : Reporting(r) # {} => r \in pendingStarts)
  /\ [][\A r \in Roots :
          Reporting(r) # {} =>
            /\ calls'[r].enable = calls[r].enable
            /\ calls'[r].factory = calls[r].factory]_vars

\* a start attempt for r1 has failed and its onError has not returned; a
\* startForFolder for r1 has returned on the guard, r1 has no client, and the
\* predicate was called for r1 once
GuardHeldInCallbackWitness ==
  /\ Reporting("r1") # {}
  /\ "r1" \in pendingStarts
  /\ "r1" \notin DOMAIN clients
  /\ calls["r1"].pending >= 1
  /\ calls["r1"].enable = 1

\* ---------------------------------------------------------------- C32

\* the client registered under key is the product of the only factory call
\* there was for key, it has started, and the start attempt is over
StartedOnce(key) ==
  /\ key \in DOMAIN clients
  /\ conns[clients[key]].started
  /\ Attempts(key) = {}
  /\ calls[key].factory = 1

\* C32: watchers stay alive while their client is registered.  In every state
\* where a client is registered under a key and the key's start attempt has
\* concluded successfully, the handles registered for the key while that
\* client was being created (every handle of the key, the factory having been
\* called for the key once) are in the key's watcher list and not disposed.
WatchersAlive ==
  \A key \in Roots :
    StartedOnce(key) =>
      \A h \in DOMAIN handles :
        handles[h].root = key =>
          /\ h \in WatcherSet(key)
          /\ ~handles[h].disposed

====
